---- MODULE Spec2Model ----
(***************************************************************************)
(* Verification model of the Vedic career-analysis services:               *)
(*   services/dasha_calculator.py    Vimshottari Dasha tables and lookup   *)
(*   services/ashtakavarga_service.py  BAV / SAV grids                     *)
(*   services/aspects_calculator.py  directional aspects                   *)
(*   services/d9_navamsha.py         9-fold harmonic transform             *)
(*   services/career_rules.py        rule engine, verdict and checklist    *)
(*   services/profession_predictor_v2.py  profession probabilities         *)
(*   api/routes/charts.py, api/cache.py   D1 / D10 routes and their cache  *)
(*                                                                         *)
(* Real numbers are represented exactly as scaled integers:                *)
(*   ages and durations   in 1/NakUnits of a year                          *)
(*   rounded ages         in hundredths of a year (round(x, 2))            *)
(*   datetimes            in 1/DayTicks of a day since the birth midnight  *)
(*   date strings         in whole days since the birth date               *)
(***************************************************************************)
EXTENDS Integers, Sequences, FiniteSets, TLC

VARIABLES
    pc,              \* position of the running computation
    moon_longitude,  \* Moon longitude, in 1/NakUnits of a nakshatra
    total_years,     \* generate_dasa_table argument
    dasa_table,      \* list of Mahadasha records built so far
    current_year,    \* loop accumulator of generate_dasa_table (1/NakUnits year)
    start_date,      \* loop accumulator of generate_dasa_table (day ticks)
    loop_i,          \* the for-loop variable i of generate_dasa_table
    current_index,   \* current_index of generate_dasa_table
    bhukti_table,    \* list of Bhukti records built so far
    main_idx,        \* position of generate_dasa_bhukti_table in main_dasa_table
    lookup,          \* result of get_current_dasa_bhukti (or NoResult)
    d1,              \* D1 chart: body name -> [longitude], in 1/UnitsPerDegree degree
    planet_positions,\* extract_planet_positions result: upper-case name -> rasi 1..12
    bav_data,        \* calculate_all_binnashtakavarga result built so far
    ashtakavarga_data, \* calculate_ashtakavarga_full result (or NoResult / NoneValue)
    chart_data,      \* flat chart of the aspect queries: body -> [longitude]
    aspect_result,   \* result of the last aspect computation (or NoResult)
    longitude,       \* argument of the harmonic transforms, in longitude units
    harmonic_result, \* result of the last harmonic transform (or NoResult)
    d10,             \* career_rules argument: the D10 chart
    dasha_current,   \* career_rules argument: current Dasha/Bhukti (or NoneValue)
    bav_sav_full,    \* career_rules argument: Ashtakavarga grid (or NoneValue)
    factors,         \* career_rules local: list of factor tags
    scores,          \* career_rules local: score name -> score, in 1/ScoreUnits
    applied_rules,   \* career_rules local: list of rule records
    career_result,   \* what career_rules returned or raised (or NoResult)
    profession_chart_data, \* chart_data dict career_predict builds for the predictor
    profession_locals,     \* calculate_profession_probabilities_v2 locals (10th house, 10th lord)
    profession_results,    \* its return value: list of (profession, score, reasons)
    REDIS_URL,       \* whether the environment configures a Redis cache
    redis_data,      \* the Redis store: cache key -> cached answer
    charts_req,      \* the chart request being answered (or NoResult)
    charts_response  \* what the chart route returned (or NoResult)

dashaVars == <<moon_longitude, total_years, dasa_table, current_year, start_date,
               loop_i, current_index, bhukti_table, main_idx, lookup>>

ashtakaVars == <<planet_positions, bav_data, ashtakavarga_data>>

aspectVars == <<chart_data, aspect_result>>

harmonicVars == <<longitude, harmonic_result>>

careerVars == <<d10, dasha_current, bav_sav_full, factors, scores, applied_rules,
                career_result>>

professionVars == <<profession_chart_data, profession_locals, profession_results>>

\* state of the API routes
chartsVars == <<REDIS_URL, redis_data, charts_req, charts_response>>

routeVars == <<professionVars, chartsVars>>

vars == <<pc, dashaVars, d1, ashtakaVars, aspectVars, harmonicVars, careerVars, routeVars>>

\* what the steps of one engine leave untouched in the others
OutsideDasha ==
    UNCHANGED <<d1, ashtakaVars, aspectVars, harmonicVars, careerVars, routeVars>>
OutsideAshtakavarga ==
    UNCHANGED <<dashaVars, d1, aspectVars, harmonicVars, careerVars, routeVars>>
OutsideAspects ==
    UNCHANGED <<dashaVars, d1, ashtakaVars, harmonicVars, careerVars, routeVars>>
OutsideHarmonic ==
    UNCHANGED <<dashaVars, d1, ashtakaVars, aspectVars, careerVars, routeVars>>
OutsideCareer ==
    UNCHANGED <<dashaVars, d1, ashtakaVars, aspectVars, harmonicVars, routeVars>>

NoResult == [kind |-> "none"]

\* Python None returned by a function
NoneValue == [kind |-> "None"]

\* the empty dict
EmptyDict == [x \in {} |-> 0]

\* engines that are not running
AshtakaIdle ==
    /\ planet_positions = EmptyDict
    /\ bav_data = EmptyDict
    /\ ashtakavarga_data = NoResult

AspectsIdle ==
    /\ chart_data = EmptyDict
    /\ aspect_result = NoResult

HarmonicIdle ==
    /\ longitude = 0
    /\ harmonic_result = NoResult

CareerIdle ==
    /\ d10 = EmptyDict
    /\ dasha_current = NoneValue
    /\ bav_sav_full = NoneValue
    /\ factors = <<>>
    /\ scores = EmptyDict
    /\ applied_rules = <<>>
    /\ career_result = NoResult

ProfessionIdle ==
    /\ profession_chart_data = EmptyDict
    /\ profession_locals = NoResult
    /\ profession_results = <<>>

ChartsIdle ==
    /\ REDIS_URL = FALSE
    /\ redis_data = EmptyDict
    /\ charts_req = NoResult
    /\ charts_response = NoResult

RoutesIdle == ProfessionIdle /\ ChartsIdle

DashaIdle ==
    /\ moon_longitude = 0
    /\ total_years = 120
    /\ dasa_table = <<>>
    /\ current_year = 0
    /\ start_date = 0
    /\ current_index = 0
    /\ loop_i = 0
    /\ bhukti_table = <<>>
    /\ main_idx = 1
    /\ lookup = NoResult

(***************************************************************************)
(* Bounds of the model                                                     *)
(***************************************************************************)
\* resolution of the Moon longitude: units per nakshatra segment (13deg20')
NakUnits == 4800
\* resolution of datetime arithmetic: ticks per day
DayTicks == 1000
\* the lookup is queried within this many days of each period boundary
QueryWindow == 2
\* resolution of chart longitudes: units per degree
UnitsPerDegree == 3

(***************************************************************************)
(* Arithmetic helpers                                                      *)
(***************************************************************************)
Min(a, b) == IF a <= b THEN a ELSE b
Max(a, b) == IF a >= b THEN a ELSE b

\* floor(a * k / n) without forming a * k (a, k, n >= 0, n > 0)
MulDiv(a, k, n) == (a \div n) * k + ((a % n) * k) \div n

\* round(num / den) to the nearest integer, ties to even (Python round())
RoundDiv(num, den) ==
    LET q == num \div den
        r == num % den
    IN  IF 2 * r < den THEN q
        ELSE IF 2 * r > den THEN q + 1
        ELSE IF q % 2 = 0 THEN q ELSE q + 1

RECURSIVE SumSeq(_)
SumSeq(s) == IF s = <<>> THEN 0 ELSE Head(s) + SumSeq(Tail(s))

(***************************************************************************)
(* dasha_calculator.py: constants                                          *)
(***************************************************************************)
DASA_KEYS == <<"Ketu", "Venus", "Sun", "Moon", "Mars", "Rahu", "Jupiter", "Saturn", "Mercury">>

DASA_DURATIONS == [Ketu |-> 7, Venus |-> 20, Sun |-> 6, Moon |-> 10, Mars |-> 7,
                   Rahu |-> 18, Jupiter |-> 16, Saturn |-> 19, Mercury |-> 17]

\* NAKSHATRA_LORDS = [...] * 3, 0-based index n
NAKSHATRA_LORDS(n) == DASA_KEYS[(n % 9) + 1]

\* list(DASA_DURATIONS.keys()).index(planet), 0-based
KeyIndex(planet) == CHOOSE k \in 0..8 : DASA_KEYS[k + 1] = planet

\* sum(bhukti_durations.values())
TotalDasaYears == SumSeq([k \in 1..9 |-> DASA_DURATIONS[DASA_KEYS[k]]])

\* days per year used by every timedelta: 365.25 = DaysPerYearNum / 4
DaysPerYearNum == 1461

(***************************************************************************)
(* get_nakshatra / calculate_dasa_start                                    *)
(***************************************************************************)
\* int((longitude % 360) // (360 / 27))
get_nakshatra_index(lon) == (lon % (27 * NakUnits)) \div NakUnits

\* variant that takes the portion completed for the portion remaining
calculate_dasa_start_elapsed(lon) ==
    LET idx       == get_nakshatra_index(lon)
        remainder == lon % NakUnits
        lord      == NAKSHATRA_LORDS(idx)
    IN  [lord |-> lord,
         remaining_years |-> DASA_DURATIONS[lord] * remainder]

\* remaining_years = total_dasa_years * (1 - portion_completed), in 1/NakUnits year
calculate_dasa_start(lon) ==
    LET idx       == get_nakshatra_index(lon)
        remainder == lon % NakUnits
        lord      == NAKSHATRA_LORDS(idx)
    IN  [lord |-> lord,
         remaining_years |-> DASA_DURATIONS[lord] * (NakUnits - remainder)]

\* round(x, 2) of a value held in 1/NakUnits year, in hundredths of a year
Round2(x) == RoundDiv(100 * x, NakUnits)

\* timedelta(days=duration * 365.25) in day ticks, duration in 1/NakUnits year
YearsToTicks(x) == MulDiv(x, (DaysPerYearNum * DayTicks) \div 4, NakUnits)

\* strftime("%Y-%m-%d"): the calendar day of a datetime
DateOf(t) == t \div DayTicks

(***************************************************************************)
(* Inputs                                                                  *)
(***************************************************************************)
\* offsets of the Moon inside its nakshatra segment that are exercised
MoonRemainders == {0, 1, NakUnits \div 4, (NakUnits \div 4) + 7, NakUnits \div 2,
                   (3 * NakUnits) \div 4, NakUnits - 1}

MoonLongitudes == {n * NakUnits + r : n \in 0..26, r \in MoonRemainders}

\* the default span and a shorter requested span
TotalYearsInputs == {120, 50}

(***************************************************************************)
(* generate_dasa_table: one action per iteration of the inner for loop     *)
(***************************************************************************)
InitDasha ==
    /\ RoutesIdle
    /\ pc = "generate_dasa_table"
    /\ moon_longitude \in MoonLongitudes
    /\ total_years \in TotalYearsInputs
    /\ dasa_table = <<>>
    /\ current_year = 0
    /\ start_date = 0
    /\ current_index = KeyIndex(calculate_dasa_start(moon_longitude).lord)
    /\ loop_i = current_index
    /\ bhukti_table = <<>>
    /\ main_idx = 1
    /\ lookup = NoResult
    /\ d1 = EmptyDict
    /\ AshtakaIdle
    /\ AspectsIdle
    /\ HarmonicIdle
    /\ CareerIdle

\* the record appended by one iteration (lines 94-111)
DasaRecord(planet, cur, duration, sdate) ==
    [planet     |-> planet,
     start_age  |-> Round2(cur),
     end_age    |-> Round2(cur + duration),
     start_date |-> DateOf(sdate),
     end_date   |-> DateOf(sdate + YearsToTicks(duration)),
     duration   |-> Round2(duration)]

\* duration of iteration i (lines 95-97)
IterationDuration(i, cidx, lon) ==
    IF i = cidx THEN calculate_dasa_start(lon).remaining_years
    ELSE DASA_DURATIONS[DASA_KEYS[(i % 9) + 1]] * NakUnits

DasaIteration ==
    /\ pc = "generate_dasa_table"
    /\ current_year < total_years * NakUnits
    /\ LET planet   == DASA_KEYS[(loop_i % 9) + 1]
           duration == IterationDuration(loop_i, current_index, moon_longitude)
       IN  /\ dasa_table' = Append(dasa_table,
                                   DasaRecord(planet, current_year, duration, start_date))
           /\ current_year' = current_year + duration
           /\ start_date' = start_date + YearsToTicks(duration)
    /\ IF loop_i + 1 = current_index + 9
       THEN /\ current_index' = 0      \* "Reset after completing the cycle"
            /\ loop_i' = 0
       ELSE /\ loop_i' = loop_i + 1
            /\ UNCHANGED current_index
    /\ UNCHANGED <<pc, moon_longitude, total_years, bhukti_table, main_idx, lookup>>
    /\ OutsideDasha

\* current_year >= total_years: break, leave the while loop and return
DasaReturn ==
    /\ pc = "generate_dasa_table"
    /\ current_year >= total_years * NakUnits
    /\ pc' = IF total_years = 120 THEN "generate_dasa_bhukti_table" ELSE "done"
    /\ UNCHANGED dashaVars
    /\ OutsideDasha

(***************************************************************************)
(* generate_dasa_bhukti_table: one action per Mahadasha record             *)
(***************************************************************************)
\* timedelta(days=proportional_duration * 365.25) in day ticks, where
\* proportional_duration = (bd / 120) * c / 100 years
BhuktiTicks(prop) == MulDiv(prop * DaysPerYearNum, DayTicks, 4 * 100 * TotalDasaYears)

\* the inner loop (lines 149-174) from iteration k on; prop and remaining are
\* held in 1/(100 * 120) of a year; pos is the position of main_period
RECURSIVE BhuktiRows(_, _, _, _, _)
BhuktiRows(main_period, pos, k, cur_date, remaining) ==
    IF k >= 9 \/ remaining <= 0 THEN <<>>
    ELSE LET idx      == KeyIndex(main_period.planet)
             bplanet  == DASA_KEYS[((idx + k) % 9) + 1]
             full     == DASA_DURATIONS[bplanet] * main_period.duration
             prop     == IF full > remaining THEN remaining ELSE full
             end_date == cur_date + BhuktiTicks(prop)
         IN  <<[maha_dasa  |-> main_period.planet,
                bhukti     |-> bplanet,
                start_date |-> DateOf(cur_date),
                end_date   |-> DateOf(end_date),
                duration   |-> RoundDiv(prop, TotalDasaYears),
                period     |-> pos]>>
             \o BhuktiRows(main_period, pos, k + 1, end_date, remaining - prop)

\* strptime(main_period['start_date']) is the midnight of that day
BhuktiOfPeriod(main_period, pos) ==
    BhuktiRows(main_period, pos, 0, main_period.start_date * DayTicks,
               TotalDasaYears * main_period.duration)

BhuktiForPeriod ==
    /\ pc = "generate_dasa_bhukti_table"
    /\ main_idx <= Len(dasa_table)
    /\ bhukti_table' = bhukti_table \o BhuktiOfPeriod(dasa_table[main_idx], main_idx)
    /\ main_idx' = main_idx + 1
    /\ UNCHANGED <<pc, moon_longitude, total_years, dasa_table, current_year,
                   start_date, loop_i, current_index, lookup>>
    /\ OutsideDasha

BhuktiReturn ==
    /\ pc = "generate_dasa_bhukti_table"
    /\ main_idx > Len(dasa_table)
    /\ pc' = "get_current_dasa_bhukti"
    /\ UNCHANGED dashaVars
    /\ OutsideDasha

(***************************************************************************)
(* get_current_dasa_bhukti                                                 *)
(***************************************************************************)
\* period['start_age'] <= age < period['end_age'], age = days / 365.25
AgeInPeriod(days, period) ==
    /\ period.start_age * DaysPerYearNum <= days * 400
    /\ days * 400 < period.end_age * DaysPerYearNum

\* position of the Mahadasha chosen by lines 204-212
CurrentDasaPos(table, days) ==
    LET hits == {k \in 1..Len(table) : AgeInPeriod(days, table[k])}
    IN  IF hits # {} THEN CHOOSE k \in hits : \A j \in hits : k <= j
        ELSE Len(table)

\* position of the Bhukti chosen by lines 218-232 (0 when there is none)
CurrentBhuktiPos(btable, planet, days) ==
    LET mine == {k \in 1..Len(btable) : btable[k].maha_dasa = planet}
        hits == {k \in mine : btable[k].start_date <= days /\ days < btable[k].end_date}
    IN  IF hits # {} THEN CHOOSE k \in hits : \A j \in hits : k <= j
        ELSE IF mine # {} THEN CHOOSE k \in mine : \A j \in mine : k >= j
        ELSE 0

get_current_dasa_bhukti(table, btable, days) ==
    LET dpos == CurrentDasaPos(table, days)
        bpos == CurrentBhuktiPos(btable, table[dpos].planet, days)
    IN  [kind           |-> "result",
         query          |-> days,
         dasa_pos       |-> dpos,
         current_dasa   |-> table[dpos],
         bhukti_pos     |-> bpos,
         current_bhukti |-> IF bpos = 0 THEN NoResult ELSE btable[bpos]]

\* query dates: whole days since birth, near the boundaries of the periods,
\* inside [birth, birth + 120 years)
InSpan(days) == days >= 0 /\ days * 4 < 120 * DaysPerYearNum

QueryDays ==
    LET marks == {dasa_table[k].start_date : k \in 1..Len(dasa_table)}
                 \cup {bhukti_table[k].start_date : k \in 1..Len(bhukti_table)}
                 \cup {bhukti_table[k].end_date : k \in 1..Len(bhukti_table)}
    IN  {d \in {m + w : m \in marks, w \in (0 - QueryWindow)..QueryWindow} : InSpan(d)}

Lookup ==
    /\ pc = "get_current_dasa_bhukti"
    /\ \E days \in QueryDays :
          lookup' = get_current_dasa_bhukti(dasa_table, bhukti_table, days)
    /\ pc' = "done"
    /\ UNCHANGED <<moon_longitude, total_years, dasa_table, current_year, start_date,
                   loop_i, current_index, bhukti_table, main_idx>>
    /\ OutsideDasha

NextDasha == DasaIteration \/ DasaReturn \/ BhuktiForPeriod \/ BhuktiReturn \/ Lookup

SpecDasha == InitDasha /\ [][NextDasha]_vars

(***************************************************************************)
(* Claims about the Dasha engine                                           *)
(***************************************************************************)
TableComplete == pc # "generate_dasa_table"

\* consecutive records meet and every record has start_age < end_age
Contiguous(table) ==
    /\ Len(table) >= 1
    /\ table[1].start_age = 0
    /\ \A k \in 1..(Len(table) - 1) : table[k].end_age = table[k + 1].start_age
    /\ \A k \in 1..Len(table) : table[k].start_age < table[k].end_age

\* C1: the Mahadasha table returned by generate_dasa_table exactly partitions
\* [0, total_years): it starts at age 0, consecutive records meet, ages are
\* strictly increasing and the last record ends at total_years.
C1_ExactPartition ==
    TableComplete =>
        /\ Contiguous(dasa_table)
        /\ dasa_table[Len(dasa_table)].end_age = 100 * total_years

\* C2: for a query date inside [birth, birth + total_years) the lookup returns
\* a Mahadasha whose age range contains the query age and a Bhukti of that
\* same Mahadasha period whose date range contains the query date.
C2_LookupContainsQuery ==
    lookup.kind = "result" =>
        /\ AgeInPeriod(lookup.query, lookup.current_dasa)
        /\ lookup.bhukti_pos # 0
        /\ lookup.current_bhukti.period = lookup.dasa_pos
        /\ lookup.current_bhukti.start_date <= lookup.query
        /\ lookup.query < lookup.current_bhukti.end_date

\* the durations of the Bhukti records emitted for the Mahadasha at pos
BhuktiDurationsOf(pos) ==
    LET rows == SelectSeq(bhukti_table, LAMBDA r : r.period = pos)
    IN  [k \in 1..Len(rows) |-> rows[k].duration]

\* C14: for every Mahadasha record of the generated tables, the durations of
\* the Bhukti records emitted for it sum to that Mahadasha's duration (within
\* 1e-6 years, so exactly on durations given in hundredths of a year), the
\* sum never exceeding the parent.
C14_BhuktiSumIsParent ==
    \A pos \in 1..Len(dasa_table) :
        (pc # "generate_dasa_table" /\ pos < main_idx)
           => SumSeq(BhuktiDurationsOf(pos)) = dasa_table[pos].duration

\* C15: at the default 120-year span, Dasha-table generation ends with at
\* most 9 Mahadasha records for every Moon longitude, and therefore with at
\* most 81 Bhukti records.
C15_AtMostNineRecords ==
    total_years = 120 =>
        /\ Len(dasa_table) <= 9
        /\ Len(bhukti_table) <= 81

\* C16: in the generated Mahadasha table only the first record is partial:
\* every record after the first has a duration equal to its planet's full
\* allocation in the duration table.
C16_OnlyFirstPartial ==
    \A k \in 2..Len(dasa_table) :
        dasa_table[k].duration = 100 * DASA_DURATIONS[dasa_table[k].planet]

\* the nakshatra segment of the Moon and the part of it already elapsed
MoonSegment == moon_longitude \div NakUnits
MoonElapsed == moon_longitude - MoonSegment * NakUnits

RASIS == <<"Mesha", "Rishaba", "Mithuna", "Kataka", "Simha", "Kanni",
           "Thula", "Vrischika", "Dhanus", "Makara", "Kumbha", "Meena">>

\* insertion order of the chart dict built by calculate_enhanced_planetary_positions
D1_ORDER == <<"Sun", "Moon", "Mercury", "Venus", "Mars", "Jupiter", "Saturn",
              "Rahu", "Ketu", "Ascendant">>

\* one rasi and the full circle, in longitude units
RasiUnits == 30 * UnitsPerDegree
CircleUnits == 360 * UnitsPerDegree

\* int(longitude // 30) for a longitude in [0, 360)
RasiIndexOf(lon) == lon \div RasiUnits

\* a chart entry placed in the middle of rasi r (0-based)
MidRasi(r) == [longitude |-> (r % 12) * RasiUnits + 15 * UnitsPerDegree]

\* the family of input charts: Sun, Moon and Ascendant range over the rasis
\* given, the other bodies are spread over the zodiac as a function of them
\* (Mercury and Venus stay next to the Sun, Ketu opposes Rahu)
ChartOf(asc, sun, moon) ==
    [Sun       |-> MidRasi(sun),
     Moon      |-> MidRasi(moon),
     Mercury   |-> MidRasi(sun + 1),
     Venus     |-> MidRasi(sun + 11),
     Mars      |-> MidRasi(sun + 2 * moon + 1),
     Jupiter   |-> MidRasi(moon + 4 * asc + 3),
     Saturn    |-> MidRasi(3 * asc + moon + 7),
     Rahu      |-> MidRasi(asc + sun + 5),
     Ketu      |-> MidRasi(asc + sun + 11),
     Ascendant |-> MidRasi(asc)]

\* the chart without the entry of body b (b = "none" removes nothing)
Without(chart, b) == [n \in (DOMAIN chart) \ {b} |-> chart[n]]

(***************************************************************************)
(* ashtakavarga_service.py                                                 *)
(***************************************************************************)
TAMIL_ASHTAKAVARGA_RULES ==
  [
    SUN |->
        [
         SUN |-> {1, 2, 4, 7, 8, 9, 10, 11},
         MOON |-> {3, 6, 10, 11},
         MARS |-> {1, 2, 4, 7, 8, 9, 10, 11},
         MERCURY |-> {3, 5, 6, 9, 10, 11, 12},
         JUPITER |-> {5, 6, 9, 11},
         VENUS |-> {6, 7, 12},
         SATURN |-> {1, 2, 4, 7, 8, 9, 10, 11},
         ASCENDANT |-> {3, 4, 6, 10, 11, 12} ],
    MOON |->
        [
         SUN |-> {3, 6, 7, 8, 10, 11},
         MOON |-> {1, 3, 6, 7, 10, 11},
         MARS |-> {2, 3, 5, 6, 9, 10, 11},
         MERCURY |-> {1, 3, 4, 5, 7, 8, 10, 11},
         JUPITER |-> {1, 4, 7, 8, 10, 11, 12},
         VENUS |-> {3, 4, 5, 7, 9, 10, 11},
         SATURN |-> {3, 5, 6, 11},
         ASCENDANT |-> {3, 6, 10, 11} ],
    MARS |->
        [
         SUN |-> {3, 5, 6, 10, 11},
         MOON |-> {3, 6, 11},
         MARS |-> {1, 2, 4, 7, 8, 10, 11},
         MERCURY |-> {3, 5, 6, 11},
         JUPITER |-> {6, 10, 11, 12},
         VENUS |-> {6, 8, 11, 12},
         SATURN |-> {1, 4, 7, 8, 9, 10, 11},
         ASCENDANT |-> {1, 3, 6, 10, 11} ],
    MERCURY |->
        [
         SUN |-> {5, 6, 9, 11, 12},
         MOON |-> {2, 4, 6, 8, 10, 11},
         MARS |-> {1, 2, 4, 7, 8, 9, 10, 11},
         MERCURY |-> {1, 3, 5, 6, 9, 10, 11, 12},
         JUPITER |-> {6, 8, 11, 12},
         VENUS |-> {1, 2, 3, 4, 5, 8, 9, 11},
         SATURN |-> {1, 2, 4, 7, 8, 9, 10, 11},
         ASCENDANT |-> {1, 2, 4, 6, 8, 10, 11} ],
    JUPITER |->
        [
         SUN |-> {1, 2, 3, 4, 7, 8, 9, 10, 11},
         MOON |-> {2, 5, 7, 9, 11},
         MARS |-> {1, 2, 4, 7, 8, 10, 11},
         MERCURY |-> {1, 2, 4, 5, 6, 9, 10, 11},
         JUPITER |-> {1, 2, 3, 4, 7, 8, 10, 11},
         VENUS |-> {2, 5, 6, 9, 10, 11},
         SATURN |-> {3, 5, 6, 12},
         ASCENDANT |-> {1, 2, 4, 5, 6, 7, 9, 10, 11} ],
    VENUS |->
        [
         SUN |-> {8, 11, 12},
         MOON |-> {1, 2, 3, 4, 5, 8, 9, 11, 12},
         MARS |-> {3, 5, 6, 9, 11, 12},
         MERCURY |-> {3, 5, 6, 9, 11},
         JUPITER |-> {5, 8, 9, 10, 11},
         VENUS |-> {1, 2, 3, 4, 5, 8, 9, 10, 11},
         SATURN |-> {3, 4, 5, 8, 9, 10, 11},
         ASCENDANT |-> {1, 2, 3, 4, 5, 8, 9, 11} ],
    SATURN |->
        [
         SUN |-> {1, 2, 4, 7, 8, 10, 11},
         MOON |-> {3, 6, 11},
         MARS |-> {3, 5, 6, 10, 11, 12},
         MERCURY |-> {6, 8, 9, 10, 11, 12},
         JUPITER |-> {5, 6, 11, 12},
         VENUS |-> {6, 11, 12},
         SATURN |-> {3, 5, 6, 11},
         ASCENDANT |-> {1, 3, 4, 6, 10, 11} ],
    ASCENDANT |->
        [
         SUN |-> {3, 4, 6, 10, 11, 12},
         MOON |-> {3, 6, 10, 11},
         MARS |-> {1, 3, 6, 10, 11},
         MERCURY |-> {1, 2, 4, 6, 8, 10, 11},
         JUPITER |-> {1, 2, 4, 5, 6, 7, 9, 10, 11},
         VENUS |-> {1, 2, 3, 4, 5, 8, 9, 11},
         SATURN |-> {1, 3, 4, 6, 10, 11},
         ASCENDANT |-> {3, 6, 10, 11} ]
  ]

\* PLANET_KEY_MAP in insertion order: chart key, upper-case key
PLANET_KEY_MAP == <<<<"Sun", "SUN">>, <<"Moon", "MOON">>, <<"Mars", "MARS">>,
                    <<"Mercury", "MERCURY">>, <<"Jupiter", "JUPITER">>,
                    <<"Venus", "VENUS">>, <<"Saturn", "SATURN">>,
                    <<"Ascendant", "ASCENDANT">>>>

\* planets = ['SUN', ..., 'SATURN'] of calculate_all_binnashtakavarga
BAV_PLANETS == <<"SUN", "MOON", "MARS", "MERCURY", "JUPITER", "VENUS", "SATURN">>

\* variant that wraps a negative difference by 12 instead of 13
calculate_relative_position_tamil_wrap12(target_house, reference_rasi) ==
    IF target_house >= reference_rasi
    THEN target_house - reference_rasi + 1
    ELSE target_house - reference_rasi + 12

calculate_relative_position_tamil(target_house, reference_rasi) ==
    IF target_house >= reference_rasi
    THEN target_house - reference_rasi + 1
    ELSE target_house - reference_rasi + 13

\* rasi_num = int(longitude // 30) + 1, brought into 1..12
extract_planet_positions(chart) ==
    LET keys == {k \in 1..Len(PLANET_KEY_MAP) : PLANET_KEY_MAP[k][1] \in DOMAIN chart}
        upper == {PLANET_KEY_MAP[k][2] : k \in keys}
        keyOf(u) == CHOOSE k \in keys : PLANET_KEY_MAP[k][2] = u
    IN  [u \in upper |->
            ((RasiIndexOf(chart[PLANET_KEY_MAP[keyOf(u)][1]].longitude)) % 12) + 1]

\* references that add a bindu to house_num in the grid of target_planet
Contributors(target_planet, positions, house_num) ==
    {ref \in DOMAIN TAMIL_ASHTAKAVARGA_RULES[target_planet] :
        /\ ref \in DOMAIN positions
        /\ calculate_relative_position_tamil(house_num, positions[ref])
              \in TAMIL_ASHTAKAVARGA_RULES[target_planet][ref]}

\* variant whose bindu counts leave out the Ascendant's contributions
calculate_binnashtakavarga_no_ascendant(target_planet, positions) ==
    LET contributions == [h \in 1..12 |-> Contributors(target_planet, positions, h)]
        chart == [h \in 1..12 |-> Cardinality(contributions[h] \ {"ASCENDANT"})]
    IN  [chart |-> chart, contributions |-> contributions, total |-> SumSeq(chart)]

calculate_binnashtakavarga(target_planet, positions) ==
    LET contributions == [h \in 1..12 |-> Contributors(target_planet, positions, h)]
        chart == [h \in 1..12 |-> Cardinality(contributions[h])]
    IN  [chart |-> chart, contributions |-> contributions, total |-> SumSeq(chart)]

calculate_sarvashtakavarga(bav) ==
    LET present == {k \in 1..Len(BAV_PLANETS) : BAV_PLANETS[k] \in DOMAIN bav}
        column(h) == [k \in 1..Len(BAV_PLANETS) |->
                         IF k \in present THEN bav[BAV_PLANETS[k]].chart[h] ELSE 0]
        sav_chart == [h \in 1..12 |-> SumSeq(column(h))]
    IN  [chart |-> sav_chart, total |-> SumSeq(sav_chart)]

\* variant that does not require the Ascendant
RequiredPresent_sun_moon(positions) == {"SUN", "MOON"} \subseteq DOMAIN positions

\* required_planets = ['SUN', 'MOON', 'ASCENDANT']
RequiredPresent(positions) == {"SUN", "MOON", "ASCENDANT"} \subseteq DOMAIN positions

\* rasis taken by Sun, Moon and Ascendant in the input charts
AshtakaRasis == 0..11
\* a body left out of the chart ("none": complete chart)
AbsentInputs == {"none", "Sun", "Moon", "Ascendant", "Saturn"}

AshtakaCharts ==
    {Without(ChartOf(a, s, m), b) :
        a \in AshtakaRasis, s \in AshtakaRasis, m \in {0, 3, 7, 10}, b \in AbsentInputs}

InitAshtakavarga ==
    /\ RoutesIdle
    /\ pc = "extract_planet_positions"
    /\ d1 \in AshtakaCharts
    /\ planet_positions = EmptyDict
    /\ bav_data = EmptyDict
    /\ ashtakavarga_data = NoResult
    /\ DashaIdle
    /\ AspectsIdle
    /\ HarmonicIdle
    /\ CareerIdle

\* lines 293-298: extract the positions, give up when a required one is missing
ExtractPositions ==
    /\ pc = "extract_planet_positions"
    /\ planet_positions' = extract_planet_positions(d1)
    /\ IF RequiredPresent(planet_positions')
       THEN /\ pc' = "calculate_all_binnashtakavarga"
            /\ UNCHANGED ashtakavarga_data
       ELSE /\ pc' = "ashtakavarga_done"
            /\ ashtakavarga_data' = NoneValue
    /\ UNCHANGED bav_data
    /\ OutsideAshtakavarga

\* one iteration of the loop of calculate_all_binnashtakavarga
BavForPlanet ==
    /\ pc = "calculate_all_binnashtakavarga"
    /\ Cardinality(DOMAIN bav_data) < Len(BAV_PLANETS)
    /\ LET planet == BAV_PLANETS[Cardinality(DOMAIN bav_data) + 1]
       IN  bav_data' = [p \in (DOMAIN bav_data) \cup {planet} |->
                           IF p = planet
                           THEN calculate_binnashtakavarga(planet, planet_positions)
                           ELSE bav_data[p]]
    /\ UNCHANGED <<pc, planet_positions, ashtakavarga_data>>
    /\ OutsideAshtakavarga

\* lines 304-310
Sarvashtakavarga ==
    /\ pc = "calculate_all_binnashtakavarga"
    /\ Cardinality(DOMAIN bav_data) = Len(BAV_PLANETS)
    /\ ashtakavarga_data' = [kind |-> "data",
                             bav |-> bav_data,
                             sav |-> calculate_sarvashtakavarga(bav_data),
                             planet_positions |-> planet_positions]
    /\ pc' = "ashtakavarga_done"
    /\ UNCHANGED <<planet_positions, bav_data>>
    /\ OutsideAshtakavarga

\* dasha_service.calculate_current_dasha on the same chart: None when the
\* chart has no Moon longitude; otherwise what get_current_dasa_bhukti returns
\* for the birth data and the date of the call, which are not part of the
\* chart (any running Dasha and Bhukti lord), or None when an exception is
\* caught (a birth date or time that does not parse)
CalculateCurrentDasha ==
    /\ pc = "extract_planet_positions"
    /\ IF "Moon" \notin DOMAIN d1 \/ "longitude" \notin DOMAIN d1["Moon"]
       THEN lookup' = NoneValue
       ELSE \/ \E dasa_i \in DOMAIN DASA_KEYS, bhukti_i \in DOMAIN DASA_KEYS :
                  lookup' = [kind |-> "current",
                             current_dasa |-> DASA_KEYS[dasa_i],
                             current_bhukti |-> DASA_KEYS[bhukti_i]]
            \/ lookup' = NoneValue
    /\ pc' = "dasha_done"
    /\ UNCHANGED <<moon_longitude, total_years, dasa_table, current_year, start_date,
                   loop_i, current_index, bhukti_table, main_idx>>
    /\ UNCHANGED <<d1, ashtakaVars, aspectVars, harmonicVars, careerVars, routeVars>>

NextAshtakavarga ==
    ExtractPositions \/ BavForPlanet \/ Sarvashtakavarga \/ CalculateCurrentDasha

SpecAshtakavarga == InitAshtakavarga /\ [][NextAshtakavarga]_vars

\* C5: when all seven classical planets and the Ascendant have positions the
\* Sarvashtakavarga total over the 12 houses is 337, whatever the positions.
C5_SavTotalIs337 ==
    (ashtakavarga_data.kind = "data"
        /\ Cardinality(DOMAIN ashtakavarga_data.planet_positions) = 8)
    => ashtakavarga_data.sav.total = 337

\* a full chart whose planets are spread over several rasis has been summed
C5_Witness ==
    /\ ashtakavarga_data.kind = "data"
    /\ Cardinality(DOMAIN ashtakavarga_data.planet_positions) = 8
    /\ Cardinality({ashtakavarga_data.planet_positions[b] :
                       b \in DOMAIN ashtakavarga_data.planet_positions}) >= 5

\* C19: if the Sun, the Moon or the Ascendant is absent from the chart the
\* Ashtakavarga engine returns None rather than a grid, and if the Moon is
\* absent the current-Dasha computation returns None; no exception is raised
\* and no guessed result is produced.
C19_UnavailableWhenAbsent ==
    /\ ({"Sun", "Moon", "Ascendant"} \subseteq DOMAIN d1) = FALSE
          => /\ pc \in {"extract_planet_positions", "ashtakavarga_done", "dasha_done"}
             /\ bav_data = EmptyDict
             /\ pc = "ashtakavarga_done" => ashtakavarga_data = NoneValue
    /\ ("Moon" \notin DOMAIN d1 /\ pc = "dasha_done") => lookup = NoneValue

\* both engines' cases: the Dasha computation has returned None for a chart
\* without the Moon
C19_Witness ==
    /\ pc = "dasha_done"
    /\ "Moon" \notin DOMAIN d1
    /\ "Sun" \in DOMAIN d1
    /\ lookup = NoneValue

\* the Ashtakavarga engine has returned None for a chart without the Ascendant
C19_WitnessAshtakavarga ==
    /\ pc = "ashtakavarga_done"
    /\ "Ascendant" \notin DOMAIN d1
    /\ ashtakavarga_data = NoneValue

\* the (reference, house) pairs of a planet's grid that are benefic matches:
\* the reference has a position and the house, counted forward from the
\* reference's rasi, is one of the benefic places of the rule table
BeneficMatches(planet) ==
    {m \in (DOMAIN TAMIL_ASHTAKAVARGA_RULES[planet]) \X (1..12) :
        /\ m[1] \in DOMAIN planet_positions
        /\ (((m[2] - planet_positions[m[1]]) % 12) + 1)
              \in TAMIL_ASHTAKAVARGA_RULES[planet][m[1]]}

\* C18: in every per-planet Ashtakavarga grid each house's bindu count is the
\* number of reference points recorded as contributors for that house, hence
\* an integer in 0..8, and the grid total is the number of (reference, house)
\* benefic matches, whatever the order of processing.
C18_BinduCounts ==
    \A planet \in DOMAIN bav_data :
        /\ \A h \in 1..12 :
              /\ bav_data[planet].chart[h] = Cardinality(bav_data[planet].contributions[h])
              /\ bav_data[planet].chart[h] \in 0..8
        /\ bav_data[planet].total = Cardinality(BeneficMatches(planet))

\* all seven grids have been computed and the Ascendant is among several
\* contributors of some house
C18_Witness ==
    /\ Cardinality(DOMAIN bav_data) = 7
    /\ \E planet \in DOMAIN bav_data, h \in 1..12 :
          /\ "ASCENDANT" \in bav_data[planet].contributions[h]
          /\ bav_data[planet].chart[h] >= 5

(***************************************************************************)
(* aspects_calculator.py and astrology_helpers.py: directional aspects     *)
(***************************************************************************)
\* ((from_house + n - 2) % 12) + 1
get_nth_house_from(from_house, n) == ((from_house + n - 2) % 12) + 1

get_planet_aspects(planet, from_house) ==
    {get_nth_house_from(from_house, 7)}
    \cup (IF planet = "Mars"
          THEN {get_nth_house_from(from_house, 4), get_nth_house_from(from_house, 8)}
          ELSE IF planet = "Jupiter"
          THEN {get_nth_house_from(from_house, 5), get_nth_house_from(from_house, 9)}
          ELSE IF planet = "Saturn"
          THEN {get_nth_house_from(from_house, 3), get_nth_house_from(from_house, 10)}
          ELSE {})

\* whole-sign house of a planet: (planet_rasi - lagna_rasi) % 12 + 1
get_house_from_planet_position(planet_longitude, ascendant_longitude) ==
    ((RasiIndexOf(planet_longitude) - RasiIndexOf(ascendant_longitude)) % 12) + 1

ASPECT_PLANETS == <<"Sun", "Moon", "Mars", "Mercury", "Jupiter", "Venus", "Saturn",
                    "Rahu", "Ketu">>

\* the flat chart_data the aspect queries read: '<planet>_longitude' keys and
\* 'ascendant_longitude'; a key is present when the body is in flat
HasKey(flat, body) == body \in DOMAIN flat

\* "if not ascendant_lon": the key is absent (None) or the value is 0
NotAscendantLon(flat) == ~HasKey(flat, "Ascendant") \/ flat["Ascendant"].longitude = 0

\* get_planets_aspecting_house: the (planet, planet_house) pairs, in list order
RECURSIVE AspectingFrom(_, _, _)
AspectingFrom(k, target_house, flat) ==
    IF k > Len(ASPECT_PLANETS) THEN <<>>
    ELSE LET planet == ASPECT_PLANETS[k]
             rest   == AspectingFrom(k + 1, target_house, flat)
         IN  IF ~HasKey(flat, planet) THEN rest
             ELSE LET planet_house == get_house_from_planet_position(
                                          flat[planet].longitude, flat["Ascendant"].longitude)
                  IN  IF target_house \in get_planet_aspects(planet, planet_house)
                      THEN <<<<planet, planet_house>>>> \o rest
                      ELSE rest

get_planets_aspecting_house(target_house, flat) ==
    IF NotAscendantLon(flat) THEN <<>> ELSE AspectingFrom(1, target_house, flat)

get_planets_aspecting_planet(target_planet, flat) ==
    IF ~HasKey(flat, target_planet) THEN <<>>
    ELSE IF NotAscendantLon(flat) THEN <<>>
    ELSE get_planets_aspecting_house(
             get_house_from_planet_position(flat[target_planet].longitude,
                                            flat["Ascendant"].longitude), flat)

\* astrology_helpers.VEDIC_ASPECTS and _planet_aspects_house
VEDIC_ASPECTS ==
    [Mars |-> {4, 7, 8}, Mercury |-> {7}, Jupiter |-> {5, 7, 9}, Venus |-> {7},
     Saturn |-> {3, 7, 10}, Sun |-> {7}, Moon |-> {7}, Rahu |-> {5, 7, 9},
     Ketu |-> {5, 7, 9}]

_planet_aspects_house(planet_house, aspect_house, planet) ==
    LET diff == (aspect_house - planet_house) % 12
    IN  \/ diff = 0
        \/ diff \in (IF planet \in DOMAIN VEDIC_ASPECTS THEN VEDIC_ASPECTS[planet] ELSE {7})

\* the chart with the Ascendant at exactly 0 degrees
AscendantAtZero(chart) == [n \in DOMAIN chart |->
                              IF n = "Ascendant" THEN [longitude |-> 0] ELSE chart[n]]

AspectCharts ==
    LET full == {ChartOf(a, s, m) : a \in {0, 1, 5, 10}, s \in {0, 4, 9}, m \in {2, 7}}
    IN  full \cup {AscendantAtZero(c) : c \in full}
             \cup {Without(c, "Ascendant") : c \in full}
             \cup {Without(c, "Jupiter") : c \in full}

InitAspects ==
    /\ RoutesIdle
    /\ pc = "aspects"
    /\ chart_data \in AspectCharts
    /\ aspect_result = NoResult
    /\ d1 = EmptyDict
    /\ AshtakaIdle
    /\ DashaIdle
    /\ HarmonicIdle
    /\ CareerIdle

\* get_planet_aspects(planet, from_house) and _planet_aspects_house for one
\* planet, placement and house
AspectsOfPlanet ==
    /\ pc = "aspects"
    /\ \E planet \in {ASPECT_PLANETS[k] : k \in 1..Len(ASPECT_PLANETS)},
          from_house \in 1..12, house \in 1..12 :
          aspect_result' = [kind |-> "pair", planet |-> planet,
                            from_house |-> from_house, house |-> house,
                            calculator |-> house \in get_planet_aspects(planet, from_house),
                            helper |-> _planet_aspects_house(from_house, house, planet)]
    /\ pc' = "aspects_done"
    /\ UNCHANGED chart_data
    /\ OutsideAspects

AspectingHouse ==
    /\ pc = "aspects"
    /\ \E target_house \in 1..12 :
          aspect_result' = [kind |-> "house", target_house |-> target_house,
                            planets |-> get_planets_aspecting_house(target_house, chart_data)]
    /\ pc' = "aspects_done"
    /\ UNCHANGED chart_data
    /\ OutsideAspects

AspectingPlanet ==
    /\ pc = "aspects"
    /\ \E target_planet \in {ASPECT_PLANETS[k] : k \in 1..Len(ASPECT_PLANETS)} :
          aspect_result' = [kind |-> "planet", target_planet |-> target_planet,
                            planets |-> get_planets_aspecting_planet(target_planet, chart_data)]
    /\ pc' = "aspects_done"
    /\ UNCHANGED chart_data
    /\ OutsideAspects

NextAspects == AspectsOfPlanet \/ AspectingHouse \/ AspectingPlanet

SpecAspects == InitAspects /\ [][NextAspects]_vars

\* the aspect rule as claimed: offset 0 (occupation) or an offset of the set
\* 7 for every planet, plus 4, 8 for Mars, 5, 9 for Jupiter, 3, 10 for Saturn
ClaimedOffsets(planet) ==
    {7} \cup (IF planet = "Mars" THEN {4, 8}
              ELSE IF planet = "Jupiter" THEN {5, 9}
              ELSE IF planet = "Saturn" THEN {3, 10}
              ELSE {})

ClaimedAspect(planet, from_house, house) ==
    LET diff == (house - from_house) % 12
    IN  diff = 0 \/ diff \in ClaimedOffsets(planet)

\* the planets of the chart that the claimed rule lets aspect target_house
ClaimedAspecting(target_house, flat) ==
    {planet \in {ASPECT_PLANETS[k] : k \in 1..Len(ASPECT_PLANETS)} :
        /\ HasKey(flat, planet)
        /\ HasKey(flat, "Ascendant")
        /\ ClaimedAspect(planet,
                         get_house_from_planet_position(flat[planet].longitude,
                                                        flat["Ascendant"].longitude),
                         target_house)}

NamesOf(pairs) == {pairs[k][1] : k \in 1..Len(pairs)}

\* C9: a planet in house P aspects house H iff (H - P) mod 12 is 0 or in the
\* planet's offset set, and the queries "planets aspecting house H" and
\* "planets aspecting planet X" return exactly the planets satisfying it.
C9_AspectRule ==
    /\ aspect_result.kind = "pair" =>
          /\ aspect_result.calculator
                = ClaimedAspect(aspect_result.planet, aspect_result.from_house,
                                aspect_result.house)
          /\ aspect_result.helper
                = ClaimedAspect(aspect_result.planet, aspect_result.from_house,
                                aspect_result.house)
    /\ aspect_result.kind = "house" =>
          NamesOf(aspect_result.planets)
             = ClaimedAspecting(aspect_result.target_house, chart_data)
    /\ (aspect_result.kind = "planet" /\ HasKey(chart_data, aspect_result.target_planet)
           /\ HasKey(chart_data, "Ascendant")) =>
          NamesOf(aspect_result.planets)
             = ClaimedAspecting(
                   get_house_from_planet_position(
                       chart_data[aspect_result.target_planet].longitude,
                       chart_data["Ascendant"].longitude), chart_data)

(***************************************************************************)
(* d9_navamsha.py and d10_dasamsa.py: the 9-fold and 10-fold transforms    *)
(***************************************************************************)
NAVAMSA_START_OFFSET ==
    [r \in 0..11 |->
        CASE r \in {0, 3, 6, 9}  -> 0
          [] r \in {1, 4, 7, 10} -> 8
          [] r \in {2, 5, 8, 11} -> 4]

\* int(degrees_in_rasi / (30.0 / 9.0)), capped at 8
NavamsaPart(lon) ==
    LET part == ((lon % RasiUnits) * 9) \div RasiUnits
    IN  IF part >= 9 THEN 8 ELSE part

\* variant that forgets the base rasi: (offset + part) % 12
d1_longitude_to_d9_rasi_index_no_base(lon_in) ==
    LET lon        == lon_in % CircleUnits
        rasi_index == (lon \div RasiUnits) % 12
    IN  (NAVAMSA_START_OFFSET[rasi_index] + NavamsaPart(lon)) % 12

d1_longitude_to_d9_rasi_index(lon_in) ==
    LET lon        == lon_in % CircleUnits
        rasi_index == (lon \div RasiUnits) % 12
        offset     == IF rasi_index \in DOMAIN NAVAMSA_START_OFFSET
                      THEN NAVAMSA_START_OFFSET[rasi_index] ELSE 0
    IN  (rasi_index + offset + NavamsaPart(lon)) % 12

\* variant that scales the whole degrees-in-rasi instead of the position in
\* the part
d1_longitude_to_d9_longitude_unscaled(lon_in) ==
    LET lon             == lon_in % CircleUnits
        rasi_index      == d1_longitude_to_d9_rasi_index(lon)
        degrees_in_rasi == lon % RasiUnits
    IN  rasi_index * RasiUnits + degrees_in_rasi * 9

\* position_in_part * (30 / NAVAMSA_PART_SIZE) is 9 * degrees_in_rasi less
\* part whole rasis
d1_longitude_to_d9_longitude(lon_in) ==
    LET lon             == lon_in % CircleUnits
        rasi_index      == d1_longitude_to_d9_rasi_index(lon)
        degrees_in_rasi == lon % RasiUnits
        part            == NavamsaPart(lon)
    IN  rasi_index * RasiUnits + (9 * degrees_in_rasi - part * RasiUnits)

\* variant that starts the even signs 9 rasis ahead
d1_longitude_to_d10_start9(lon_in) ==
    LET lon             == lon_in % CircleUnits
        rasi_index      == (lon \div RasiUnits) % 12
        degrees_in_rasi == lon % RasiUnits
        slice           == 3 * UnitsPerDegree
        part            == IF degrees_in_rasi \div slice >= 10 THEN 9
                           ELSE degrees_in_rasi \div slice
        d10_rasi_index  == IF rasi_index % 2 = 0
                           THEN (rasi_index + part) % 12
                           ELSE (((rasi_index + 9) % 12) + part) % 12
    IN  d10_rasi_index * RasiUnits + (degrees_in_rasi % slice) * 10

d1_longitude_to_d10(lon_in) ==
    LET lon             == lon_in % CircleUnits
        rasi_index      == (lon \div RasiUnits) % 12
        degrees_in_rasi == lon % RasiUnits
        slice           == 3 * UnitsPerDegree
        part            == IF degrees_in_rasi \div slice >= 10 THEN 9
                           ELSE degrees_in_rasi \div slice
        d10_rasi_index  == IF rasi_index % 2 = 0
                           THEN (rasi_index + part) % 12
                           ELSE (((rasi_index + 8) % 12) + part) % 12
    IN  d10_rasi_index * RasiUnits + (degrees_in_rasi % slice) * 10

\* input longitudes: the whole circle and one turn on either side of it
HarmonicLongitudes == (0 - CircleUnits)..(2 * CircleUnits)

InitHarmonic ==
    /\ RoutesIdle
    /\ pc = "harmonic"
    /\ longitude \in HarmonicLongitudes
    /\ harmonic_result = NoResult
    /\ d1 = EmptyDict
    /\ AshtakaIdle
    /\ AspectsIdle
    /\ DashaIdle
    /\ CareerIdle

NavamshaRasi ==
    /\ pc = "harmonic"
    /\ harmonic_result' = [kind |-> "d9_rasi_index",
                           rasi_index |-> d1_longitude_to_d9_rasi_index(longitude)]
    /\ pc' = "harmonic_done"
    /\ UNCHANGED longitude
    /\ OutsideHarmonic

NavamshaLongitude ==
    /\ pc = "harmonic"
    /\ harmonic_result' = [kind |-> "d9_longitude",
                           longitude |-> d1_longitude_to_d9_longitude(longitude)]
    /\ pc' = "harmonic_done"
    /\ UNCHANGED longitude
    /\ OutsideHarmonic

DasamsaLongitude ==
    /\ pc = "harmonic"
    /\ harmonic_result' = [kind |-> "d10_longitude",
                           longitude |-> d1_longitude_to_d10(longitude)]
    /\ pc' = "harmonic_done"
    /\ UNCHANGED longitude
    /\ OutsideHarmonic

NextHarmonic == NavamshaRasi \/ NavamshaLongitude \/ DasamsaLongitude

SpecHarmonic == InitHarmonic /\ [][NextHarmonic]_vars

\* base rasi (0-based) and degrees-in-sign part of a longitude, from the circle
BaseRasi(lon) == (lon % CircleUnits) \div RasiUnits
NinthPart(lon) == Min((((lon % CircleUnits) % RasiUnits) * 9) \div RasiUnits, 8)

\* start offset by motion class: movable 0, fixed 8, dual 4
MotionClassOffset(rasi) ==
    CASE rasi % 3 = 0 -> 0
      [] rasi % 3 = 1 -> 8
      [] rasi % 3 = 2 -> 4

\* C10: the 9-fold destination rasi is (base rasi + offset + part) mod 12 with
\* part = min(floor(degrees-in-sign / (30/9)), 8) and offset 0 / 8 / 4 for
\* movable / fixed / dual base rasis; part 0 of a movable rasi stays in that
\* rasi and 15 degrees of the first rasi maps to rasi index 4.
C10_NavamshaRasi ==
    harmonic_result.kind = "d9_rasi_index" =>
        /\ harmonic_result.rasi_index
              = (BaseRasi(longitude) + MotionClassOffset(BaseRasi(longitude))
                   + NinthPart(longitude)) % 12
        /\ (BaseRasi(longitude) % 3 = 0 /\ NinthPart(longitude) = 0)
              => harmonic_result.rasi_index = BaseRasi(longitude)
        /\ longitude = 15 * UnitsPerDegree => harmonic_result.rasi_index = 4

\* a body in the last part of a fixed rasi has been transformed
C10_Witness ==
    /\ harmonic_result.kind = "d9_rasi_index"
    /\ BaseRasi(longitude) = 4
    /\ NinthPart(longitude) = 8
    /\ harmonic_result.rasi_index = 8

\* the 3-degree part of a longitude within its rasi, from the circle
TenthPart(lon) == ((lon % CircleUnits) % RasiUnits) \div (3 * UnitsPerDegree)

\* the rasi the parts of a base rasi start from: the base itself for the
\* even-positioned rasis, the rasi 8 ahead for the odd-positioned ones
DasamsaStart(rasi) == IF rasi % 2 = 0 THEN rasi ELSE (rasi + 8) % 12

\* C11: for each of the 12 base rasis the ten 3-degree parts 0..9 of the
\* 10-fold transform map to ten distinct consecutive rasis, one rasi further
\* per part, starting at the base rasi for even-positioned base rasis and 8
\* rasis ahead for odd-positioned ones; 15 degrees of the first rasi (part 5)
\* maps to rasi index 5.
C11_DasamsaRasi ==
    harmonic_result.kind = "d10_longitude" =>
        /\ harmonic_result.longitude \div RasiUnits
              = (DasamsaStart(BaseRasi(longitude)) + TenthPart(longitude)) % 12
        /\ \A p, q \in 0..9 :
              LET base   == BaseRasi(longitude) * RasiUnits
                  at(k)  == d1_longitude_to_d10(base + k * 3 * UnitsPerDegree) \div RasiUnits
              IN  /\ p # q => at(p) # at(q)
                  /\ q = p + 1 => at(q) = (at(p) + 1) % 12
        /\ longitude = 15 * UnitsPerDegree => harmonic_result.longitude \div RasiUnits = 5

\* a body in the last part of an odd-positioned rasi has been transformed
C11_Witness ==
    /\ harmonic_result.kind = "d10_longitude"
    /\ BaseRasi(longitude) = 1
    /\ TenthPart(longitude) = 9
    /\ harmonic_result.longitude \div RasiUnits = 6

\* C12: for every input longitude, below 0 and at or above 360 included,
\* the 9-fold and the 10-fold transform return a longitude in [0, 360).
C12_TransformInCircle ==
    harmonic_result.kind \in {"d9_longitude", "d10_longitude"} =>
        /\ harmonic_result.longitude >= 0
        /\ harmonic_result.longitude < CircleUnits

\* a longitude below 0 that falls in the last rasi and in the last ninth of
\* it has been transformed by the 9-fold transform
C12_Witness ==
    /\ harmonic_result.kind = "d9_longitude"
    /\ longitude < 0
    /\ BaseRasi(longitude) = 11
    /\ NinthPart(longitude) = 8
    /\ harmonic_result.longitude \in 0..(CircleUnits - 1)

(***************************************************************************)
(* d10_dasamsa.py: the D10 chart                                           *)
(***************************************************************************)
Range(s) == {s[i] : i \in DOMAIN s}

\* a chart entry with the rasi read off its longitude (get_chart_info)
get_chart_info(lon, retrograde) ==
    [longitude |-> lon % CircleUnits,
     rasi |-> RASIS[RasiIndexOf(lon % CircleUnits) + 1],
     retrograde |-> retrograde]

d10_longitude_to_rasi(lon) == RASIS[((lon \div RasiUnits) % 12) + 1]

\* insertion order of the dict built by calculate_d10_chart
D10_ORDER == <<"Sun", "Moon", "Mars", "Mercury", "Jupiter", "Venus", "Saturn",
               "Rahu", "Ketu", "Ascendant">>

\* insertion order of the dict built by _get_d1_from_db
DB_ORDER == <<"Sun", "Moon", "Mars", "Mercury", "Jupiter", "Venus", "Saturn",
              "Rahu", "Ketu", "Ascendant">>

\* the iteration order of a D1 dict: the ephemeris charts carry "_metadata",
\* the charts loaded from the database do not
ChartOrder(chart) == IF "_metadata" \in DOMAIN chart THEN D1_ORDER ELSE DB_ORDER

\* the planets of a chart dict, in iteration order (keys starting with "_" and
\* non-dict values are skipped by every loop over chart.items())
Items(chart, order) == SelectSeq(order, LAMBDA n : n \in DOMAIN chart)

\* houses are keyed House_1 .. House_12; the model keys them 1 .. 12
calculate_d10_chart(d1_positions) ==
    LET names == {n \in Range(D10_ORDER) :
                     n \in DOMAIN d1_positions /\ "longitude" \in DOMAIN d1_positions[n]}
        body(n) == LET d10_lon == d1_longitude_to_d10(d1_positions[n].longitude)
                   IN  [longitude |-> d10_lon,
                        rasi |-> d10_longitude_to_rasi(d10_lon),
                        retrograde |-> IF "retrograde" \in DOMAIN d1_positions[n]
                                       THEN d1_positions[n].retrograde ELSE FALSE]
        d10_houses == [i \in 1..12 |->
                          LET house_lon == (body("Ascendant").longitude
                                              + (i - 1) * RasiUnits) % CircleUnits
                          IN  [longitude |-> house_lon,
                               rasi |-> d10_longitude_to_rasi(house_lon)]]
    IN  [k \in names \cup (IF "Ascendant" \in names THEN {"_enhanced"} ELSE {}) |->
            IF k = "_enhanced" THEN [houses |-> d10_houses] ELSE body(k)]

(***************************************************************************)
(* career_rules.py: static tables and chart helpers                        *)
(***************************************************************************)
\* scores are kept in 1/ScoreUnits, which represents every literal weight of
\* the rule engine and their products exactly
ScoreUnits == 100000

\* a literal such as 0.35 given in hundredths
Pts(hundredths) == hundredths * (ScoreUnits \div 100)

RASI_LORDS ==
    [Mesha |-> "Mars", Rishaba |-> "Venus", Mithuna |-> "Mercury", Kataka |-> "Moon",
     Simha |-> "Sun", Kanni |-> "Mercury", Thula |-> "Venus", Vrischika |-> "Mars",
     Dhanus |-> "Jupiter", Makara |-> "Saturn", Kumbha |-> "Saturn", Meena |-> "Jupiter"]

EXALTATION ==
    [Sun |-> "Mesha", Moon |-> "Vrischika", Mars |-> "Makara", Mercury |-> "Kanni",
     Jupiter |-> "Kataka", Venus |-> "Meena", Saturn |-> "Thula"]

OWN_SIGNS ==
    [Sun |-> {"Simha"}, Moon |-> {"Kataka"}, Mars |-> {"Mesha", "Vrischika"},
     Mercury |-> {"Mithuna", "Kanni"}, Jupiter |-> {"Dhanus", "Meena"},
     Venus |-> {"Rishaba", "Thula"}, Saturn |-> {"Makara", "Kumbha"}]

BENEFICS == {"Jupiter", "Venus", "Mercury", "Moon"}
MALEFICS == {"Saturn", "Mars", "Rahu", "Ketu"}

\* dict.get with "" standing for a missing key, None or the empty string
\* (the rule engine only tests these values for truth or equality)
LordOf(rasi) == IF rasi \in DOMAIN RASI_LORDS THEN RASI_LORDS[rasi] ELSE ""
ExaltationOf(planet) == IF planet \in DOMAIN EXALTATION THEN EXALTATION[planet] ELSE ""
OwnSignsOf(planet) == IF planet \in DOMAIN OWN_SIGNS THEN OWN_SIGNS[planet] ELSE {}
RasiOf(chart, n) ==
    IF n \in DOMAIN chart /\ "rasi" \in DOMAIN chart[n] THEN chart[n].rasi ELSE ""

HasHouses(chart) == "_enhanced" \in DOMAIN chart /\ "houses" \in DOMAIN chart["_enhanced"]

RECURSIVE WhichHouseFrom(_, _, _)
WhichHouseFrom(i, lon, cusps) ==
    IF i > Len(cusps) THEN 10
    ELSE LET cusp      == cusps[i]
             next_cusp == cusps[(i % 12) + 1]
         IN  IF next_cusp > cusp
             THEN IF cusp <= lon /\ lon < next_cusp THEN i
                  ELSE WhichHouseFrom(i + 1, lon, cusps)
             ELSE IF lon >= cusp \/ lon < next_cusp THEN i
                  ELSE WhichHouseFrom(i + 1, lon, cusps)

_which_house_d1(lon, cusps) == WhichHouseFrom(1, lon % CircleUnits, cusps)

_get_d1_cusps(chart) ==
    IF HasHouses(chart)
    THEN [i \in 1..12 |->
             IF i \in DOMAIN chart["_enhanced"].houses
             THEN chart["_enhanced"].houses[i].longitude
             ELSE (i - 1) * RasiUnits]
    ELSE [i \in 1..12 |-> (i - 1) * RasiUnits]

\* _d10_house_for_planet raises KeyError when the chart has a houses dict and
\* a cusp House_i is missing from it or the planet entry has no longitude
_d10_house_for_planet_raises(chart, planet) ==
    /\ planet \in DOMAIN chart
    /\ HasHouses(chart)
    /\ \/ "longitude" \notin DOMAIN chart[planet]
       \/ \E i \in 1..12 : i \notin DOMAIN chart["_enhanced"].houses

\* the house, with 0 standing for None
_d10_house_for_planet(chart, planet) ==
    IF planet \notin DOMAIN chart THEN 0
    ELSE IF HasHouses(chart)
    THEN _which_house_d1(chart[planet].longitude,
                         [i \in 1..12 |-> chart["_enhanced"].houses[i].longitude])
    ELSE 0

\* the planets of the chart that have a longitude and fall in house h
InHouse(chart, order, cusps, h) ==
    SelectSeq(Items(chart, order),
              LAMBDA n : /\ "longitude" \in DOMAIN chart[n]
                         /\ _which_house_d1(chart[n].longitude, cusps) = h)

Count(names, group) == Len(SelectSeq(names, LAMBDA n : n \in group))
\* the rule ids of RULE_META, in the order of the dict
RULE_META ==
  <<
    "D1_10th_lord_in_10th", "D1_10th_lord_in_own_sign", "D1_10th_lord_exalted",
    "d1_10th_lord_placement", "D1_planets_in_10th", "d1_10th_benefics",
    "d1_10th_malefics", "D10_10th_rasi", "current_dasa_lord_is_10th_lord",
    "current_bhukti_lord_is_10th_lord", "dasha_10th_link", "bhukti_10th_link",
    "SAV_10th_house_bindus", "sav_10th", "D10_10th_lord_transposition",
    "D10_10th_lord_weak", "Vargottama", "D10_Kendra_benefics", "D10_Kendra_malefics",
    "D10_sign_nature_10th", "D1_10th_lord_in_2nd_3rd", "aspects_to_10th_house",
    "aspects_to_10th_lord", "D9_dispositor_10th_lord", "house_connections_10_11_lagna",
    "chandra_lagna_10th", "chara_karakas", "raja_yoga_in_D10", "upachaya_sun_saturn",
    "eighth_house", "amsa_deities", "yogakaraka_in_10th", "parivartana_yoga_10th",
    "neechabhanga_10th", "sun_in_10th", "dharma_karma_yoga", "exalted_in_10th",
    "rahu_ketu_in_10th", "combust_in_10th", "d10_lagna_strength",
    "d10_lagna_lord_placement", "d10_10th_lord_placement", "big_three_lords",
    "artha_trikona", "business_vs_job", "saturn_in_d10", "planetary_career_indicators",
    "d10_2nd_house", "d10_4th_house", "d10_8th_house", "d10_9th_house",
    "dasha_career_timing", "d1_d10_strength_comparison", "moon_10th_career",
    "d10_benefic_malefic_ratio", "exalted_in_both_d1_d10", "jupiter_aspects_d10",
    "saturn_aspects_d10", "retrograde_planets_d10" >>

\* str: a rule id or the literal head of a factor tag as the list of its
\* "_"-separated pieces (substring tests are made on these pieces)
Pieces ==
  [
    D1_10th_lord_in_10th |-> <<"D1", "10th", "lord", "in", "10th">>,
    D1_10th_lord_in_own_sign |-> <<"D1", "10th", "lord", "in", "own", "sign">>,
    D1_10th_lord_exalted |-> <<"D1", "10th", "lord", "exalted">>,
    d1_10th_lord_placement |-> <<"d1", "10th", "lord", "placement">>,
    D1_planets_in_10th |-> <<"D1", "planets", "in", "10th">>,
    d1_10th_benefics |-> <<"d1", "10th", "benefics">>,
    d1_10th_malefics |-> <<"d1", "10th", "malefics">>,
    D10_10th_rasi |-> <<"D10", "10th", "rasi">>,
    current_dasa_lord_is_10th_lord |-> <<"current", "dasa", "lord", "is", "10th", "lord">>,
    current_bhukti_lord_is_10th_lord |-> <<"current", "bhukti", "lord", "is", "10th", "lord">>,
    dasha_10th_link |-> <<"dasha", "10th", "link">>,
    bhukti_10th_link |-> <<"bhukti", "10th", "link">>,
    SAV_10th_house_bindus |-> <<"SAV", "10th", "house", "bindus">>,
    sav_10th |-> <<"sav", "10th">>,
    D10_10th_lord_transposition |-> <<"D10", "10th", "lord", "transposition">>,
    D10_10th_lord_weak |-> <<"D10", "10th", "lord", "weak">>,
    Vargottama |-> <<"Vargottama">>,
    D10_Kendra_benefics |-> <<"D10", "Kendra", "benefics">>,
    D10_Kendra_malefics |-> <<"D10", "Kendra", "malefics">>,
    D10_sign_nature_10th |-> <<"D10", "sign", "nature", "10th">>,
    D1_10th_lord_in_2nd_3rd |-> <<"D1", "10th", "lord", "in", "2nd", "3rd">>,
    aspects_to_10th_house |-> <<"aspects", "to", "10th", "house">>,
    aspects_to_10th_lord |-> <<"aspects", "to", "10th", "lord">>,
    D9_dispositor_10th_lord |-> <<"D9", "dispositor", "10th", "lord">>,
    house_connections_10_11_lagna |-> <<"house", "connections", "10", "11", "lagna">>,
    chandra_lagna_10th |-> <<"chandra", "lagna", "10th">>,
    chara_karakas |-> <<"chara", "karakas">>,
    raja_yoga_in_D10 |-> <<"raja", "yoga", "in", "D10">>,
    upachaya_sun_saturn |-> <<"upachaya", "sun", "saturn">>,
    eighth_house |-> <<"eighth", "house">>,
    amsa_deities |-> <<"amsa", "deities">>,
    yogakaraka_in_10th |-> <<"yogakaraka", "in", "10th">>,
    parivartana_yoga_10th |-> <<"parivartana", "yoga", "10th">>,
    neechabhanga_10th |-> <<"neechabhanga", "10th">>,
    sun_in_10th |-> <<"sun", "in", "10th">>,
    dharma_karma_yoga |-> <<"dharma", "karma", "yoga">>,
    exalted_in_10th |-> <<"exalted", "in", "10th">>,
    rahu_ketu_in_10th |-> <<"rahu", "ketu", "in", "10th">>,
    combust_in_10th |-> <<"combust", "in", "10th">>,
    d10_lagna_strength |-> <<"d10", "lagna", "strength">>,
    d10_lagna_lord_placement |-> <<"d10", "lagna", "lord", "placement">>,
    d10_10th_lord_placement |-> <<"d10", "10th", "lord", "placement">>,
    big_three_lords |-> <<"big", "three", "lords">>,
    artha_trikona |-> <<"artha", "trikona">>,
    business_vs_job |-> <<"business", "vs", "job">>,
    saturn_in_d10 |-> <<"saturn", "in", "d10">>,
    planetary_career_indicators |-> <<"planetary", "career", "indicators">>,
    d10_2nd_house |-> <<"d10", "2nd", "house">>,
    d10_4th_house |-> <<"d10", "4th", "house">>,
    d10_8th_house |-> <<"d10", "8th", "house">>,
    d10_9th_house |-> <<"d10", "9th", "house">>,
    dasha_career_timing |-> <<"dasha", "career", "timing">>,
    d1_d10_strength_comparison |-> <<"d1", "d10", "strength", "comparison">>,
    moon_10th_career |-> <<"moon", "10th", "career">>,
    d10_benefic_malefic_ratio |-> <<"d10", "benefic", "malefic", "ratio">>,
    exalted_in_both_d1_d10 |-> <<"exalted", "in", "both", "d1", "d10">>,
    jupiter_aspects_d10 |-> <<"jupiter", "aspects", "d10">>,
    saturn_aspects_d10 |-> <<"saturn", "aspects", "d10">>,
    retrograde_planets_d10 |-> <<"retrograde", "planets", "d10">>,
    D10_10th_tatwa |-> <<"D10", "10th", "tatwa">>,
    D10_10th_lord_transposition_strong |-> <<"D10", "10th", "lord", "transposition", "strong">>,
    aspects_to_10th |-> <<"aspects", "to", "10th">>,
    parivartana_yoga |-> <<"parivartana", "yoga">>,
    rahu_in_10th |-> <<"rahu", "in", "10th">>,
    ketu_in_10th |-> <<"ketu", "in", "10th">>,
    D10_lagna_lord |-> <<"D10", "lagna", "lord">>,
    D10_10th_lord |-> <<"D10", "10th", "lord">>,
    big_three_lords_combined |-> <<"big", "three", "lords", "combined">>,
    Saturn_in_D10_house |-> <<"Saturn", "in", "D10", "house">>,
    D10_2nd_house |-> <<"D10", "2nd", "house">>,
    D10_4th_house |-> <<"D10", "4th", "house">>,
    D10_8th_house |-> <<"D10", "8th", "house">>,
    D10_9th_house |-> <<"D10", "9th", "house">>,
    D1_D10_strength_comparison |-> <<"D1", "D10", "strength", "comparison">>,
    D10_benefic_malefic_ratio |-> <<"D10", "benefic", "malefic", "ratio">>,
    exalted_in_both_D1_D10 |-> <<"exalted", "in", "both", "D1", "D10">>,
    Jupiter_aspects_D10_houses |-> <<"Jupiter", "aspects", "D10", "houses">>,
    Saturn_aspects_D10_houses |-> <<"Saturn", "aspects", "D10", "houses">>,
    retrograde_in_D10 |-> <<"retrograde", "in", "D10">> ]

\* sub in text, on pieces: sub occurs in text as a contiguous run
Contains(text, sub) ==
    \E k \in 0..(Len(text) - Len(sub)) : SubSeq(text, k + 1, k + Len(sub)) = sub

\* text.startswith(sub), on pieces
StartsWith(text, sub) == Len(sub) <= Len(text) /\ SubSeq(text, 1, Len(sub)) = sub

\* a factor tag f"{head}_{values}": its literal head and the interpolated
\* values, each value one piece (lists are joined piece by piece)
Tag(head, values) == [head |-> head, values |-> values]
TagPieces(tag) == Pieces[tag.head] \o tag.values

\* ','.join(values) or another interpolated text without "_": one piece
Joined(values) == <<ToString(values)>>

\* a rule record; the name is RULE_META[rule_id]["name"], the explanation is
\* RULE_META[rule_id]["explanation"], followed by chart values when detail is set
Rule(rule_id, score, detail) ==
    [rule_id |-> rule_id, score |-> score,
     explanation |-> IF detail THEN "explanation + chart values" ELSE "explanation"]

\* what one evaluator appends to factors, sets in scores and appends to
\* applied_rules
Nothing == [factors |-> <<>>, scores |-> EmptyDict, rules |-> <<>>]

Contribution(tags, named_scores, rules) ==
    [factors |-> tags, scores |-> named_scores, rules |-> rules]

\* two contributions made one after the other
Then(first, second) ==
    [factors |-> first.factors \o second.factors,
     scores |-> second.scores @@ first.scores,
     rules |-> first.rules \o second.rules]

\* the evaluators in source order, then the aggregation and the checklist
STAGES ==
    <<"tenth_lord_d1", "planets_in_10th", "d10_10th_house", "dasha_touching_10th",
      "sav_10th_house", "tenth_lord_2nd_3rd", "d10_kendra", "d10_sign_nature",
      "vargottama", "tenth_lord_transposition", "aspects_to_10th", "helper_rules",
      "yogakaraka", "parivartana", "neechabhanga", "sun_in_10th", "dharma_karma",
      "exalted_in_10th", "rahu_ketu", "combust", "d10_lagna", "d10_10th_lord",
      "big_three", "artha_trikona", "business_vs_job", "saturn_in_d10",
      "planetary_indicators", "d10_2nd_house", "d10_4th_house", "d10_8th_house",
      "d10_9th_house", "dasha_timing", "strength_comparison", "moon_10th",
      "benefic_malefic_ratio", "exalted_in_both", "jupiter_aspects", "saturn_aspects",
      "retrograde_d10", "aggregate", "returned">>

StageAfter(stage) == STAGES[(CHOOSE k \in 1..Len(STAGES) : STAGES[k] = stage) + 1]

\* an evaluator that runs to its end
Run(stage, c) ==
    /\ pc = stage
    /\ factors' = factors \o c.factors
    /\ scores' = c.scores @@ scores
    /\ applied_rules' = applied_rules \o c.rules
    /\ pc' = StageAfter(stage)
    /\ UNCHANGED <<d10, dasha_current, bav_sav_full, career_result>>
    /\ OutsideCareer

\* an exception leaves career_rules: nothing is returned
Raise(stage, exception) ==
    /\ pc = stage
    /\ career_result' = [kind |-> "raised", exception |-> exception, stage |-> stage]
    /\ pc' = "raised"
    /\ UNCHANGED <<d10, dasha_current, bav_sav_full, factors, scores, applied_rules>>
    /\ OutsideCareer

\* locals of career_rules that are functions of its arguments
cusps == _get_d1_cusps(d1)
house_10_rasi == RASIS[((cusps[10] \div RasiUnits) % 12) + 1]
tenth_lord_of(chart) ==
    LordOf(RASIS[((_get_d1_cusps(chart)[10] \div RasiUnits) % 12) + 1])
tenth_lord == tenth_lord_of(d1)
planets_in_10 == InHouse(d1, ChartOrder(d1), cusps, 10)
d10_cusps == _get_d1_cusps(d10)
d10_houses == IF HasHouses(d10) THEN d10["_enhanced"].houses ELSE EmptyDict
HouseRasi(houses, i) ==
    IF i \in DOMAIN houses /\ "rasi" \in DOMAIN houses[i] THEN houses[i].rasi ELSE ""
(***************************************************************************)
(* career_rules.py: the evaluators, in source order                        *)
(***************************************************************************)
\* 1) 10th lord in D1 (lines 438-471): the first entry that is the 10th lord
\* or sits in a rasi ruled by it decides, then the loop breaks
Rule01_TenthLordInD1 ==
    Run("tenth_lord_d1",
            LET found == SelectSeq(Items(d1, ChartOrder(d1)),
                                   LAMBDA n : /\ "rasi" \in DOMAIN d1[n]
                                              /\ (LordOf(d1[n].rasi) = tenth_lord \/ n = tenth_lord))
            IN  IF tenth_lord = "" \/ found = <<>> THEN Nothing
                ELSE LET rasi == d1[Head(found)].rasi
                     IN  IF rasi = house_10_rasi
                         THEN Contribution(<<Tag("D1_10th_lord_in_10th", <<>>)>>,
                                           "d1_10th_lord_placement" :> Pts(100),
                                           <<Rule("D1_10th_lord_in_10th", Pts(100), FALSE)>>)
                         ELSE IF rasi \in OwnSignsOf(tenth_lord)
                         THEN Contribution(<<Tag("D1_10th_lord_in_own_sign", <<>>)>>,
                                           "d1_10th_lord_placement" :> Pts(90),
                                           <<Rule("D1_10th_lord_in_own_sign", Pts(90), FALSE)>>)
                         ELSE IF rasi = ExaltationOf(tenth_lord)
                         THEN Contribution(<<Tag("D1_10th_lord_exalted", <<>>)>>,
                                           "d1_10th_lord_placement" :> Pts(100),
                                           <<Rule("D1_10th_lord_exalted", Pts(100), FALSE)>>)
                         ELSE Nothing)

\* 2) planets in the 10th house of D1 (lines 473-493); the rule record carries
\* the text "Benefics: b, Malefics: m" as its score
Rule02_PlanetsIn10th ==
    Run("planets_in_10th",
            IF planets_in_10 = <<>> THEN Nothing
            ELSE LET benefic_count == Count(planets_in_10, BENEFICS)
                     malefic_count == Count(planets_in_10, MALEFICS)
                 IN  Contribution(<<Tag("D1_planets_in_10th", Joined(planets_in_10))>>,
                                  ("d1_10th_benefics" :> benefic_count * ScoreUnits)
                                     @@ ("d1_10th_malefics" :> malefic_count * ScoreUnits),
                                  <<Rule("D1_planets_in_10th",
                                         [Benefics |-> benefic_count, Malefics |-> malefic_count],
                                         FALSE)>>))

\* 3) D10 10th house (lines 495-504)
Rule03_D10TenthHouse ==
    Run("d10_10th_house",
            LET d10_10_rasi == HouseRasi(d10_houses, 10)
            IN  IF "Ascendant" \in DOMAIN d10 /\ HasHouses(d10) /\ 10 \in DOMAIN d10_houses
                   /\ d10_10_rasi # ""
                THEN Contribution(<<Tag("D10_10th_rasi", <<d10_10_rasi>>)>>,
                                  "d10_10th_rasi" :> Pts(100),
                                  <<Rule("D10_10th_rasi", Pts(100), TRUE)>>)
                ELSE Nothing)

\* 4) current Dasha / Bhukti lord is the 10th lord (lines 506-519)
Rule04_DashaTouching10th ==
    Run("dasha_touching_10th",
            IF dasha_current = NoneValue THEN Nothing
            ELSE Then(IF dasha_current.current_dasa # "" /\ tenth_lord # ""
                         /\ dasha_current.current_dasa = tenth_lord
                      THEN Contribution(<<Tag("current_dasa_lord_is_10th_lord", <<>>)>>,
                                        "dasha_10th_link" :> Pts(100),
                                        <<Rule("current_dasa_lord_is_10th_lord", Pts(100), FALSE)>>)
                      ELSE Nothing,
                      IF dasha_current.current_bhukti # "" /\ tenth_lord # ""
                         /\ dasha_current.current_bhukti = tenth_lord
                      THEN Contribution(<<Tag("current_bhukti_lord_is_10th_lord", <<>>)>>,
                                        "bhukti_10th_link" :> Pts(100),
                                        <<Rule("current_bhukti_lord_is_10th_lord", Pts(100), FALSE)>>)
                      ELSE Nothing))

\* 5) SAV 10th house strength (lines 521-539): sav[9], the tenth entry of the
\* SAV list
tenth_sav == bav_sav_full.sav_chart[10]

SavGrade(bindus) ==
    IF bindus >= 30 THEN Pts(100) ELSE IF bindus >= 26 THEN Pts(70) ELSE Pts(40)

Rule05_Sav10thHouse ==
    Run("sav_10th_house",
            IF bav_sav_full # NoneValue /\ "sav_chart" \in DOMAIN bav_sav_full
               /\ Len(bav_sav_full.sav_chart) > 9
            THEN Contribution(<<Tag("SAV_10th_house_bindus", <<ToString(tenth_sav)>>)>>,
                              "sav_10th" :> SavGrade(tenth_sav),
                              <<Rule("SAV_10th_house_bindus", SavGrade(tenth_sav), TRUE)>>)
            ELSE Nothing)

\* 6) 10th lord in the 2nd or 3rd house (lines 541-557)
tenth_lord_house_d1 ==
    LET found == SelectSeq(Items(d1, ChartOrder(d1)),
                           LAMBDA n : /\ (n = tenth_lord \/ LordOf(RasiOf(d1, n)) = tenth_lord)
                                      /\ "longitude" \in DOMAIN d1[n])
    IN  IF found = <<>> THEN 0 ELSE _which_house_d1(d1[Head(found)].longitude, cusps)

Rule06_TenthLordIn2nd3rd ==
    Run("tenth_lord_2nd_3rd",
            IF tenth_lord # "" /\ tenth_lord_house_d1 \in {2, 3}
            THEN Contribution(<<Tag("D1_10th_lord_in_2nd_3rd", <<>>)>>,
                              "d1_10th_lord_2nd_3rd" :> Pts(80),
                              <<Rule("D1_10th_lord_in_2nd_3rd", Pts(80), FALSE)>>)
            ELSE Nothing)

\* 7) benefics and malefics in the Kendra houses of D10 (lines 559-583); the
\* malefics rule records no score
InKendra(chart, order, cs) ==
    SelectSeq(Items(chart, order),
              LAMBDA n : /\ "longitude" \in DOMAIN chart[n]
                         /\ _which_house_d1(chart[n].longitude, cs) \in {1, 4, 7, 10})

Rule07_D10Kendra ==
    Run("d10_kendra",
            LET kendra_benefics_d10 ==
                    SelectSeq(InKendra(d10, D10_ORDER, d10_cusps), LAMBDA n : n \in BENEFICS)
                kendra_malefics_d10 ==
                    SelectSeq(InKendra(d10, D10_ORDER, d10_cusps), LAMBDA n : n \in MALEFICS)
                benefics_score == Min(Pts(100), Pts(25) * Len(kendra_benefics_d10))
            IN  Then(IF kendra_benefics_d10 # <<>>
                     THEN Contribution(<<Tag("D10_Kendra_benefics", Joined(kendra_benefics_d10))>>,
                                       "d10_kendra_benefics" :> benefics_score,
                                       <<Rule("D10_Kendra_benefics", benefics_score, FALSE)>>)
                     ELSE Nothing,
                     IF kendra_malefics_d10 # <<>>
                     THEN Contribution(<<Tag("D10_Kendra_malefics", Joined(kendra_malefics_d10))>>,
                                       EmptyDict,
                                       <<Rule("D10_Kendra_malefics", Pts(30), FALSE)>>)
                     ELSE Nothing))

\* 8) sign nature (tatwa) of the 10th house in D10 (lines 585-595)
Tatwa(rasi) ==
    CASE rasi \in {"Mesha", "Simha", "Dhanus"}     -> "fire"
      [] rasi \in {"Rishaba", "Kanni", "Makara"}   -> "earth"
      [] rasi \in {"Mithuna", "Thula", "Kumbha"}   -> "air"
      [] rasi \in {"Kataka", "Vrischika", "Meena"} -> "water"
      [] OTHER -> ""

Rule08_D10SignNature ==
    Run("d10_sign_nature",
            LET tatwa == Tatwa(HouseRasi(d10_houses, 10))
            IN  IF HasHouses(d10) /\ 10 \in DOMAIN d10_houses /\ tatwa # ""
                THEN Contribution(<<Tag("D10_10th_tatwa", <<tatwa>>)>>,
                                  "d10_10th_tatwa" :> Pts(50),
                                  <<Rule("D10_sign_nature_10th", Pts(50), TRUE)>>)
                ELSE Nothing)

\* 9) Vargottama: same rasi in D1 and D10 (lines 597-610)
Rule09_Vargottama ==
    Run("vargottama",
            LET vargottama == SelectSeq(D10_ORDER,
                                        LAMBDA n : /\ n \in DOMAIN d1 /\ n \in DOMAIN d10
                                                   /\ RasiOf(d1, n) # ""
                                                   /\ RasiOf(d1, n) = RasiOf(d10, n))
                score == Min(Pts(100), Pts(20) * Len(vargottama) + Pts(30))
            IN  IF vargottama = <<>> THEN Nothing
                ELSE Contribution(<<Tag("Vargottama", Joined(vargottama))>>,
                                  "vargottama" :> score,
                                  <<Rule("Vargottama", score, TRUE)>>))

\* 10) transposition of the 10th lord into D10 (lines 612-626); the house
\* lookup is not guarded
Rule10_TenthLordTransposition ==
    /\ pc = "tenth_lord_transposition"
    /\ IF tenth_lord # "" /\ _d10_house_for_planet_raises(d10, tenth_lord)
       THEN Raise("tenth_lord_transposition", "KeyError")
       ELSE Run("tenth_lord_transposition",
            LET d10_lord_rasi  == RasiOf(d10, tenth_lord)
                d10_lord_house == _d10_house_for_planet(d10, tenth_lord)
                strong_in_d10  == \/ (d10_lord_rasi # "" /\ d10_lord_rasi = ExaltationOf(tenth_lord))
                                  \/ d10_lord_rasi \in OwnSignsOf(tenth_lord)
                good_house_d10 == d10_lord_house \in {1, 4, 5, 7, 9, 10, 11}
            IN  IF ~(tenth_lord # "" /\ tenth_lord \in DOMAIN d10) THEN Nothing
                ELSE IF strong_in_d10 /\ good_house_d10
                THEN Contribution(<<Tag("D10_10th_lord_transposition_strong", <<>>)>>,
                                  "d10_10th_lord_transposition" :> Pts(100),
                                  <<Rule("D10_10th_lord_transposition", Pts(100), FALSE)>>)
                ELSE IF /\ "d1_10th_lord_placement" \in DOMAIN scores
                        /\ scores["d1_10th_lord_placement"] # 0
                        /\ ~strong_in_d10
                        /\ d10_lord_house \notin {1, 4, 5, 7, 9, 10, 11}
                THEN Contribution(<<Tag("D10_10th_lord_weak", <<>>)>>, EmptyDict,
                                  <<Rule("D10_10th_lord_weak", Pts(20), FALSE)>>)
                ELSE Nothing)

\* 11) aspects to the 10th house and to the 10th lord (lines 628-642). The
\* aspect queries read the flat keys '<planet>_longitude'; the nested D1 dict
\* that career_rules passes has none of them
FlatKeys(chart) == EmptyDict

get_planets_aspecting_10th_house(flat) == get_planets_aspecting_house(10, flat)

get_planets_aspecting_10th_lord(flat, lord) ==
    SelectSeq(get_planets_aspecting_planet(lord, flat), LAMBDA pair : pair[1] # lord)

PairNames(pairs) == [k \in 1..Len(pairs) |-> pairs[k][1]]

Rule11_AspectsTo10th ==
    Run("aspects_to_10th",
            LET asp_10     == get_planets_aspecting_10th_house(FlatKeys(d1))
                asp_lord   == get_planets_aspecting_10th_lord(FlatKeys(d1), tenth_lord)
                score_10   == Min(Pts(100), Pts(15) * Len(asp_10) + Pts(30))
                score_lord == Min(Pts(100), Pts(20) * Len(asp_lord))
            IN  Then(IF asp_10 # <<>>
                     THEN Contribution(<<Tag("aspects_to_10th", Joined(PairNames(asp_10)))>>,
                                       "aspects_to_10th_house" :> score_10,
                                       <<Rule("aspects_to_10th_house", score_10, TRUE)>>)
                     ELSE Nothing,
                     IF tenth_lord # "" /\ asp_lord # <<>>
                     THEN Contribution(<<Tag("aspects_to_10th_lord", Joined(PairNames(asp_lord)))>>,
                                       "aspects_to_10th_lord" :> score_lord,
                                       <<Rule("aspects_to_10th_lord", score_lord, FALSE)>>)
                     ELSE Nothing))

\* 12) - 19) D9 dispositor, house connections, Chandra Lagna, Chara Karakas,
\* Raja Yogas, Upachaya, 8th house, Amsa deities (lines 644-731): the import
\* of services.astrology_helpers at lines 41-61 fails (the module does not
\* compile), so every helper is None and none of these evaluators runs
astrology_helpers_imported == FALSE

Rule12to19_HelperRules ==
    /\ ~astrology_helpers_imported
    /\ Run("helper_rules",
            Nothing)

(***************************************************************************)
(* additional_career_rules.py                                              *)
(***************************************************************************)
YOGAKARAKA_FOR_LAGNA ==
    [Mesha |-> "", Rishaba |-> "Saturn", Mithuna |-> "Venus", Kataka |-> "Mars",
     Simha |-> "Mars", Kanni |-> "", Thula |-> "Saturn", Vrischika |-> "",
     Dhanus |-> "", Makara |-> "Venus", Kumbha |-> "Venus", Meena |-> ""]

\* the module's own exaltation table (Moon is exalted in Rishaba here)
ADDITIONAL_EXALTATION ==
    [Sun |-> "Mesha", Moon |-> "Rishaba", Mars |-> "Makara", Mercury |-> "Kanni",
     Jupiter |-> "Kataka", Venus |-> "Meena", Saturn |-> "Thula"]

DEBILITATION ==
    [Sun |-> "Thula", Moon |-> "Vrischika", Mars |-> "Kataka", Mercury |-> "Meena",
     Jupiter |-> "Makara", Venus |-> "Kanni", Saturn |-> "Mesha"]

\* the seven classical planets in the order of the module's loops and tables
SEVEN_PLANETS == <<"Sun", "Moon", "Mars", "Mercury", "Jupiter", "Venus", "Saturn">>

\* entry.get("longitude", 0)
LongitudeOr0(chart, n) ==
    IF n \in DOMAIN chart /\ "longitude" \in DOMAIN chart[n] THEN chart[n].longitude ELSE 0

\* whole-sign house: (planet_rasi - lagna_rasi) % 12 + 1
get_house_from_longitude(planet_lon, ascendant_lon) ==
    (((planet_lon \div RasiUnits) - (ascendant_lon \div RasiUnits)) % 12) + 1

HouseFromLagna(chart, n) ==
    get_house_from_longitude(LongitudeOr0(chart, n), LongitudeOr0(chart, "Ascendant"))

\* combustion: angular distance to the Sun below the planet's range (degrees)
CombustionRange(planet) ==
    CASE planet = "Moon" -> 12 [] planet = "Mars" -> 17 [] planet = "Mercury" -> 14
      [] planet = "Jupiter" -> 11 [] planet = "Venus" -> 10 [] planet = "Saturn" -> 15
      [] OTHER -> 15

is_planet_combust(planet, planet_lon, sun_lon) ==
    LET d    == IF planet_lon >= sun_lon THEN planet_lon - sun_lon ELSE sun_lon - planet_lon
        diff == IF d > 180 * UnitsPerDegree THEN CircleUnits - d ELSE d
    IN  planet # "Sun" /\ diff < CombustionRange(planet) * UnitsPerDegree

\* PUSHKARA_NAVAMSA_RANGES in thousandths of a degree: movable, fixed and dual
\* rasis; start <= degree < end
PushkaraRange(rasi) ==
    CASE rasi \in {"Mesha", "Kataka", "Thula", "Makara"}     -> <<21333, 24000>>
      [] rasi \in {"Rishaba", "Simha", "Vrischika", "Kumbha"} -> <<24000, 26667>>
      [] OTHER                                                -> <<26667, 30000>>

is_in_pushkara_navamsa(rasi, degree) ==
    /\ rasi \in Range(RASIS)
    /\ PushkaraRange(rasi)[1] * UnitsPerDegree <= degree * 1000
    /\ degree * 1000 < PushkaraRange(rasi)[2] * UnitsPerDegree

\* "Maha", "Khala", "Dainya", "Simple", or "" for no exchange
detect_parivartana_yoga(chart, planet1, planet2) ==
    LET p1_rasi  == RasiOf(chart, planet1)
        p2_rasi  == RasiOf(chart, planet2)
        p1_house == HouseFromLagna(chart, planet1)
        p2_house == HouseFromLagna(chart, planet2)
        kendras   == {1, 4, 7, 10}
        trikonas  == {1, 5, 9}
        dusthanas == {6, 8, 12}
    IN  IF planet1 \notin DOMAIN chart \/ planet2 \notin DOMAIN chart THEN ""
        ELSE IF p1_rasi = "" \/ p2_rasi = "" THEN ""
        ELSE IF ~(LordOf(p1_rasi) = planet2 /\ LordOf(p2_rasi) = planet1) THEN ""
        ELSE IF p1_house \in kendras /\ p2_house \in kendras THEN "Maha"
        ELSE IF p1_house \in trikonas /\ p2_house \in trikonas THEN "Maha"
        ELSE IF p1_house \in dusthanas /\ p2_house \in dusthanas THEN "Khala"
        ELSE IF p1_house \in dusthanas \/ p2_house \in dusthanas THEN "Dainya"
        ELSE "Simple"

detect_neechabhanga_raja_yoga(planet, chart) ==
    LET rasi      == RasiOf(chart, planet)
        rasi_lord == LordOf(rasi)
    IN  /\ rasi # ""
        /\ rasi = DEBILITATION[planet]
        /\ \/ (rasi_lord # "" /\ rasi_lord \in DOMAIN chart
                 /\ HouseFromLagna(chart, rasi_lord) \in {1, 4, 7, 10})
           \/ \E p \in DOMAIN ADDITIONAL_EXALTATION :
                 /\ ADDITIONAL_EXALTATION[p] = rasi
                 /\ p \in DOMAIN chart
                 /\ HouseFromLagna(chart, p) \in {1, 4, 7, 10}

\* each check returns the sequence of its results: <<>> stands for None / []
check_yogakaraka_in_10th(chart) ==
    LET asc_rasi   == RasiOf(chart, "Ascendant")
        yogakaraka == IF asc_rasi \in DOMAIN YOGAKARAKA_FOR_LAGNA
                      THEN YOGAKARAKA_FOR_LAGNA[asc_rasi] ELSE ""
        yk_rasi    == RasiOf(chart, yogakaraka)
    IN  IF "Ascendant" \notin DOMAIN chart THEN <<>>
        ELSE IF yogakaraka = "" \/ yogakaraka \notin DOMAIN chart THEN <<>>
        ELSE IF HouseFromLagna(chart, yogakaraka) # 10 THEN <<>>
        ELSE IF yk_rasi = ADDITIONAL_EXALTATION[yogakaraka]
        THEN <<[planet |-> yogakaraka, score |-> Pts(150)]>>
        ELSE IF yk_rasi \in OwnSignsOf(yogakaraka)
        THEN <<[planet |-> yogakaraka, score |-> Pts(130)]>>
        ELSE <<[planet |-> yogakaraka, score |-> Pts(100)]>>

ParivartanaScore(yoga_type) ==
    CASE yoga_type = "Maha" -> Pts(120) [] yoga_type = "Simple" -> Pts(80)
      [] yoga_type = "Khala" -> Pts(30) [] yoga_type = "Dainya" -> Pts(20)

check_parivartana_yoga_10th(chart, lord) ==
    LET exchanging == SelectSeq(SEVEN_PLANETS,
                                LAMBDA p : /\ p # lord
                                           /\ detect_parivartana_yoga(chart, lord, p) # "")
    IN  IF lord = "" \/ exchanging = <<>> THEN <<>>
        ELSE LET yoga_type == detect_parivartana_yoga(chart, lord, Head(exchanging))
             IN  <<[p1 |-> lord, p2 |-> Head(exchanging), yoga_type |-> yoga_type,
                    score |-> ParivartanaScore(yoga_type)]>>

check_neechabhanga_10th(chart) ==
    IF "Ascendant" \notin DOMAIN chart THEN <<>>
    ELSE LET cancelled == SelectSeq(SEVEN_PLANETS,
                                    LAMBDA p : /\ p \in DOMAIN chart
                                               /\ HouseFromLagna(chart, p) = 10
                                               /\ detect_neechabhanga_raja_yoga(p, chart))
         IN  [k \in 1..Len(cancelled) |-> [planet |-> cancelled[k], score |-> Pts(90)]]

check_sun_in_10th(chart) ==
    IF "Sun" \notin DOMAIN chart \/ "Ascendant" \notin DOMAIN chart THEN <<>>
    ELSE IF HouseFromLagna(chart, "Sun") # 10 THEN <<>>
    ELSE IF RasiOf(chart, "Sun") = "Mesha" THEN <<Pts(120)>>
    ELSE IF RasiOf(chart, "Sun") = "Simha" THEN <<Pts(100)>>
    ELSE IF RasiOf(chart, "Sun") = "Thula" THEN <<Pts(30)>>
    ELSE <<Pts(80)>>

\* check_9th_10th_lord_connection reads d1[tenth_lord] without a guard after
\* the exchange test: KeyError when the 10th lord is not in the chart
ninth_lord_of(chart) ==
    LordOf(RASIS[(((LongitudeOr0(chart, "Ascendant") + 240 * UnitsPerDegree) % CircleUnits)
                    \div RasiUnits) + 1])

check_9th_10th_lord_connection_raises(chart, lord) ==
    /\ lord # ""
    /\ "Ascendant" \in DOMAIN chart
    /\ ninth_lord_of(chart) # ""
    /\ ninth_lord_of(chart) \in DOMAIN chart
    /\ ninth_lord_of(chart) # lord
    /\ detect_parivartana_yoga(chart, lord, ninth_lord_of(chart)) = ""
    /\ lord \notin DOMAIN chart

check_9th_10th_lord_connection(chart, lord) ==
    LET ninth_lord == ninth_lord_of(chart)
    IN  IF lord = "" \/ "Ascendant" \notin DOMAIN chart THEN <<>>
        ELSE IF ninth_lord = "" \/ ninth_lord \notin DOMAIN chart \/ ninth_lord = lord
        THEN <<>>
        ELSE IF detect_parivartana_yoga(chart, lord, ninth_lord) # ""
        THEN <<[connection_type |-> "Exchange (Parivartana)", score |-> Pts(130)]>>
        ELSE IF HouseFromLagna(chart, lord) = HouseFromLagna(chart, ninth_lord)
        THEN <<[connection_type |-> "Conjunction", score |-> Pts(110)]>>
        ELSE <<>>

check_exalted_planets_in_10th(chart) ==
    IF "Ascendant" \notin DOMAIN chart THEN <<>>
    ELSE LET exalted == SelectSeq(SEVEN_PLANETS,
                                  LAMBDA p : /\ p \in DOMAIN chart
                                             /\ RasiOf(chart, p) = ADDITIONAL_EXALTATION[p]
                                             /\ HouseFromLagna(chart, p) = 10)
         IN  [k \in 1..Len(exalted) |->
                 [planet |-> exalted[k],
                  score |-> IF is_in_pushkara_navamsa(
                                   ADDITIONAL_EXALTATION[exalted[k]],
                                   LongitudeOr0(chart, exalted[k]) % RasiUnits)
                            THEN Pts(150) ELSE Pts(120)]]

check_rahu_ketu_in_10th(chart) ==
    IF "Ascendant" \notin DOMAIN chart THEN <<>>
    ELSE IF "Rahu" \in DOMAIN chart /\ HouseFromLagna(chart, "Rahu") = 10
    THEN <<[node |-> "Rahu", score |-> Pts(80)]>>
    ELSE IF "Ketu" \in DOMAIN chart /\ HouseFromLagna(chart, "Ketu") = 10
    THEN <<[node |-> "Ketu", score |-> Pts(60)]>>
    ELSE <<>>

check_combust_planets_in_10th(chart) ==
    IF "Sun" \notin DOMAIN chart \/ "Ascendant" \notin DOMAIN chart THEN <<>>
    ELSE LET combust == SelectSeq(Tail(SEVEN_PLANETS),
                                  LAMBDA p : /\ p \in DOMAIN chart
                                             /\ HouseFromLagna(chart, p) = 10
                                             /\ is_planet_combust(p, LongitudeOr0(chart, p),
                                                                  LongitudeOr0(chart, "Sun")))
         IN  [k \in 1..Len(combust) |-> [planet |-> combust[k], score |-> Pts(30)]]

\* 20) Yogakaraka planet in the 10th house (lines 733-741)
Rule20_YogakarakaIn10th ==
    Run("yogakaraka",
            LET yk_result == check_yogakaraka_in_10th(d1)
            IN  IF yk_result = <<>> THEN Nothing
                ELSE Contribution(<<Tag("yogakaraka_in_10th", <<yk_result[1].planet>>)>>,
                                  "yogakaraka_in_10th" :> yk_result[1].score,
                                  <<Rule("yogakaraka_in_10th", yk_result[1].score, TRUE)>>))

\* 21) Parivartana Yoga involving the 10th lord (lines 743-751)
Rule21_ParivartanaYoga10th ==
    Run("parivartana",
            LET pv_result == check_parivartana_yoga_10th(d1, tenth_lord)
            IN  IF tenth_lord = "" \/ pv_result = <<>> THEN Nothing
                ELSE Contribution(<<Tag("parivartana_yoga",
                                        <<pv_result[1].p1, pv_result[1].p2,
                                          pv_result[1].yoga_type>>)>>,
                                  "parivartana_yoga_10th" :> pv_result[1].score,
                                  <<Rule("parivartana_yoga_10th", pv_result[1].score, TRUE)>>))

\* 22) Neechabhanga Raja Yoga in the 10th house, first result only
\* (lines 753-762)
Rule22_Neechabhanga10th ==
    Run("neechabhanga",
            LET nb_results == check_neechabhanga_10th(d1)
            IN  IF nb_results = <<>> THEN Nothing
                ELSE Contribution(<<Tag("neechabhanga_10th", <<nb_results[1].planet>>)>>,
                                  "neechabhanga_10th" :> nb_results[1].score,
                                  <<Rule("neechabhanga_10th", nb_results[1].score, TRUE)>>))

\* 23) Sun in the 10th house (lines 764-771)
Rule23_SunIn10th ==
    Run("sun_in_10th",
            LET sun_score == check_sun_in_10th(d1)
            IN  IF sun_score = <<>> THEN Nothing
                ELSE Contribution(<<Tag("sun_in_10th", <<>>)>>,
                                  "sun_in_10th" :> sun_score[1],
                                  <<Rule("sun_in_10th", sun_score[1], FALSE)>>))

\* 24) 9th-10th lord connection (lines 773-781)
Rule24_DharmaKarmaYoga ==
    /\ pc = "dharma_karma"
    /\ IF check_9th_10th_lord_connection_raises(d1, tenth_lord)
       THEN Raise("dharma_karma", "KeyError")
       ELSE Run("dharma_karma",
            LET dk_result == check_9th_10th_lord_connection(d1, tenth_lord)
            IN  IF tenth_lord = "" \/ dk_result = <<>> THEN Nothing
                ELSE Contribution(<<Tag("dharma_karma_yoga", <<dk_result[1].connection_type>>)>>,
                                  "dharma_karma_yoga" :> dk_result[1].score,
                                  <<Rule("dharma_karma_yoga", dk_result[1].score, TRUE)>>))

\* 25) exalted planets in the 10th house: one factor per planet, the score
\* is the largest (lines 783-792)
MaxScore(results) ==
    CHOOSE s \in {results[k].score : k \in 1..Len(results)} :
        \A k \in 1..Len(results) : results[k].score <= s

Rule25_ExaltedIn10th ==
    Run("exalted_in_10th",
            LET ex_results == check_exalted_planets_in_10th(d1)
            IN  IF ex_results = <<>> THEN Nothing
                ELSE Contribution([k \in 1..Len(ex_results) |->
                                      Tag("exalted_in_10th", <<ex_results[k].planet>>)],
                                  "exalted_in_10th" :> MaxScore(ex_results),
                                  <<Rule("exalted_in_10th", MaxScore(ex_results), TRUE)>>))

\* 26) Rahu or Ketu in the 10th house; the factor is f"{node.lower()}_in_10th"
\* (lines 794-802)
Rule26_RahuKetuIn10th ==
    Run("rahu_ketu",
            LET rk_result == check_rahu_ketu_in_10th(d1)
            IN  IF rk_result = <<>> THEN Nothing
                ELSE Contribution(<<Tag(IF rk_result[1].node = "Rahu" THEN "rahu_in_10th"
                                        ELSE "ketu_in_10th", <<>>)>>,
                                  "rahu_ketu_in_10th" :> rk_result[1].score,
                                  <<Rule("rahu_ketu_in_10th", rk_result[1].score, TRUE)>>))

\* 27) combust planets in the 10th house: one factor per planet, the score
\* is the last penalty (lines 804-813)
Rule27_CombustIn10th ==
    Run("combust",
            LET cb_results == check_combust_planets_in_10th(d1)
            IN  IF cb_results = <<>> THEN Nothing
                ELSE Contribution([k \in 1..Len(cb_results) |->
                                      Tag("combust_in_10th", <<cb_results[k].planet>>)],
                                  "combust_in_10th" :> cb_results[Len(cb_results)].score,
                                  <<Rule("combust_in_10th",
                                         cb_results[Len(cb_results)].score, TRUE)>>))


(***************************************************************************)
(* career_rules.py: phase 1 evaluators (28 - 33)                           *)
(***************************************************************************)
\* f"{x:.2f}" of a score, as the number of hundredths
Hundredths(score) == (score + (ScoreUnits \div 200)) \div (ScoreUnits \div 100)

\* min(1.0, x)
Cap(score) == Min(Pts(100), score)

\* the house of a D10 entry, 0 standing for None (entry without longitude)
D10HouseOf(n) ==
    IF "longitude" \in DOMAIN d10[n] THEN _which_house_d1(d10[n].longitude, d10_cusps) ELSE 0

\* own sign before exaltation: the bonus and its label
SignBonus(planet, rasi, own, exalted) ==
    IF rasi \in OwnSignsOf(planet) THEN [bonus |-> own, label |-> <<"own sign">>]
    ELSE IF rasi = ExaltationOf(planet) THEN [bonus |-> exalted, label |-> <<"exalted">>]
    ELSE [bonus |-> 0, label |-> <<>>]

\* 28) D10 Lagna lord placement (lines 817-868)
Rule28_D10LagnaStrength ==
    Run("d10_lagna",
            LET d10_lagna_rasi == RasiOf(d10, "Ascendant")
                d10_lagna_lord == LordOf(d10_lagna_rasi)
                d10_lagna_lord_house == D10HouseOf(d10_lagna_lord)
                placement ==
                    IF d10_lagna_lord_house \in {1, 4, 7, 10}
                    THEN [bonus |-> Pts(50), label |-> "Kendra (strong)"]
                    ELSE IF d10_lagna_lord_house \in {5, 9}
                    THEN [bonus |-> Pts(40), label |-> "Trikona (fortunate)"]
                    ELSE IF d10_lagna_lord_house \in {2, 11}
                    THEN [bonus |-> Pts(20), label |-> "wealth house"]
                    ELSE IF d10_lagna_lord_house \in {3, 6}
                    THEN [bonus |-> Pts(10), label |-> "Upachaya (growth through effort)"]
                    ELSE [bonus |-> 0, label |-> "neutral placement"]
                dignity == SignBonus(d10_lagna_lord, RasiOf(d10, d10_lagna_lord), Pts(30), Pts(40))
                lagna_strength == Pts(30) + placement.bonus + dignity.bonus
                strength_factors ==
                    <<"house", ToString(d10_lagna_lord_house), placement.label>> \o dignity.label
            IN  IF "Ascendant" \in DOMAIN d10 /\ d10_lagna_rasi # "" /\ d10_lagna_lord # ""
                   /\ d10_lagna_lord \in DOMAIN d10 /\ d10_lagna_lord_house # 0
                THEN Contribution(<<Tag("D10_lagna_lord", <<d10_lagna_lord>> \o Joined(strength_factors))>>,
                                  "d10_lagna_strength" :> Cap(lagna_strength),
                                  <<Rule("d10_lagna_strength", Cap(lagna_strength), TRUE)>>)
                ELSE Nothing)

\* 29) D10 10th lord placement (lines 870-920)
Rule29_D10TenthLordPlacement ==
    Run("d10_10th_lord",
            LET d10_10th_rasi == HouseRasi(d10_houses, 10)
                d10_10th_lord == LordOf(d10_10th_rasi)
                d10_10th_lord_house == D10HouseOf(d10_10th_lord)
                placement ==
                    IF d10_10th_lord_house \in {1, 4, 7, 10}
                    THEN [bonus |-> Pts(60), label |-> "Kendra (strong)"]
                    ELSE IF d10_10th_lord_house \in {5, 9}
                    THEN [bonus |-> Pts(50), label |-> "Trikona (fortunate)"]
                    ELSE IF d10_10th_lord_house \in {2, 11}
                    THEN [bonus |-> Pts(30), label |-> "wealth house"]
                    ELSE IF d10_10th_lord_house \in {3, 6}
                    THEN [bonus |-> Pts(20), label |-> "Upachaya (growth)"]
                    ELSE [bonus |-> 0, label |-> "neutral"]
                dignity == SignBonus(d10_10th_lord, RasiOf(d10, d10_10th_lord), Pts(30), Pts(40))
                d10_10th_strength == Pts(30) + placement.bonus + dignity.bonus
                d10_10th_factors ==
                    <<"house", ToString(d10_10th_lord_house), placement.label>> \o dignity.label
            IN  IF HasHouses(d10) /\ 10 \in DOMAIN d10_houses /\ d10_10th_rasi # ""
                   /\ d10_10th_lord # "" /\ d10_10th_lord \in DOMAIN d10 /\ d10_10th_lord_house # 0
                THEN Contribution(<<Tag("D10_10th_lord", <<d10_10th_lord>> \o Joined(d10_10th_factors))>>,
                                  "d10_10th_lord_placement" :> Cap(d10_10th_strength),
                                  <<Rule("d10_10th_lord_placement", Cap(d10_10th_strength), TRUE)>>)
                ELSE Nothing)

\* 30) the three lords combined: 0.33, 0.33 and 0.34 of the three scores
\* recorded so far (lines 922-951)
Rule30_BigThreeLords ==
    Run("big_three",
            LET keys == <<"d10_lagna_strength", "d10_10th_lord_placement", "d1_10th_lord_placement">>
                weight == <<33, 33, 34>>
                part(k) == IF keys[k] \in DOMAIN scores
                           THEN (scores[keys[k]] * weight[k]) \div 100 ELSE 0
                big_three_score == part(1) + part(2) + part(3)
                big_three_details == SelectSeq(keys, LAMBDA key : key \in DOMAIN scores)
            IN  IF big_three_score > 0 /\ Len(big_three_details) >= 2
                THEN Contribution(<<Tag("big_three_lords_combined",
                                        <<ToString(Hundredths(big_three_score))>>)>>,
                                  "big_three_lords" :> big_three_score,
                                  <<Rule("big_three_lords", big_three_score, TRUE)>>)
                ELSE Nothing)

\* 31) Artha Trikona: benefics in the 2nd and 6th houses, benefics in the
\* 10th, and shared lords of the 2nd, 6th and 10th houses (lines 953-1025)
house_6_planets == InHouse(d1, ChartOrder(d1), cusps, 6)

Rule31_ArthaTrikona ==
    Run("artha_trikona",
            LET house_2_planets == InHouse(d1, ChartOrder(d1), cusps, 2)
                tenth_benefics  == IF "d1_10th_benefics" \in DOMAIN scores
                                      /\ scores["d1_10th_benefics"] > 0
                                   THEN (scores["d1_10th_benefics"] * 20) \div 100 ELSE 0
                house_2_lord == LordOf(RASIS[((cusps[2] \div RasiUnits) % 12) + 1])
                house_6_lord == LordOf(RASIS[((cusps[6] \div RasiUnits) % 12) + 1])
                artha_trikona_score ==
                    Pts(15) * Count(house_2_planets, BENEFICS)
                      + Pts(10) * Count(house_6_planets, BENEFICS)
                      + tenth_benefics
                      + (IF house_2_lord # "" /\ tenth_lord # "" /\ house_2_lord = tenth_lord
                         THEN Pts(30) ELSE 0)
                      + (IF house_6_lord # "" /\ tenth_lord # "" /\ house_6_lord = tenth_lord
                         THEN Pts(30) ELSE 0)
                      + (IF house_2_lord # "" /\ house_6_lord # "" /\ house_2_lord = house_6_lord
                         THEN Pts(20) ELSE 0)
            IN  IF artha_trikona_score > 0
                THEN Contribution(<<Tag("artha_trikona",
                                        <<ToString(Hundredths(artha_trikona_score))>>)>>,
                                  "artha_trikona" :> Cap(artha_trikona_score),
                                  <<Rule("artha_trikona", Cap(artha_trikona_score), TRUE)>>)
                ELSE Nothing)

\* 32) business or job: benefics in the 7th against benefics in the 6th; a
\* score is recorded in every case (lines 1027-1070)
Rule32_BusinessVsJob ==
    Run("business_vs_job",
            LET house_6_benefics == Count(house_6_planets, BENEFICS)
                house_7_benefics == Count(InHouse(d1, ChartOrder(d1), cusps, 7), BENEFICS)
                business_vs_job_score ==
                    IF house_7_benefics > house_6_benefics THEN Pts(70)
                    ELSE IF house_6_benefics > house_7_benefics THEN Pts(60)
                    ELSE Pts(50)
                \* career_type.replace('/', '_')
                career_type ==
                    IF house_7_benefics > house_6_benefics THEN <<"Business", "Entrepreneurship">>
                    ELSE IF house_6_benefics > house_7_benefics THEN <<"Job", "Service">>
                    ELSE <<"Flexible">>
            IN  Contribution(<<Tag("business_vs_job", career_type)>>,
                             "business_vs_job" :> business_vs_job_score,
                             <<Rule("business_vs_job", business_vs_job_score, TRUE)>>))

\* 33) Saturn in D10 (lines 1072-1107)
Rule33_SaturnInD10 ==
    Run("saturn_in_d10",
            LET saturn_d10_house == D10HouseOf("Saturn")
                saturn_d10_rasi  == RasiOf(d10, "Saturn")
                base == IF saturn_d10_house \in {3, 6, 10, 11} THEN Pts(80)
                        ELSE IF saturn_d10_house \in {1, 4, 7} THEN Pts(40)
                        ELSE Pts(30)
                saturn_score == base + SignBonus("Saturn", saturn_d10_rasi, Pts(20), Pts(30)).bonus
            IN  IF "Saturn" \in DOMAIN d10 /\ "longitude" \in DOMAIN d10["Saturn"]
                THEN Contribution(<<Tag("Saturn_in_D10_house",
                                        <<ToString(saturn_d10_house),
                                          IF saturn_d10_rasi = "" THEN "None" ELSE saturn_d10_rasi>>)>>,
                                  "saturn_in_d10" :> Cap(saturn_score),
                                  <<Rule("saturn_in_d10", Cap(saturn_score), TRUE)>>)
                ELSE Nothing)


(***************************************************************************)
(* career_rules.py: phase 2 and phase 3 evaluators (34 - 46)               *)
(***************************************************************************)
\* 34) planetary career indicators: the planets of the 10th house that have
\* a career type, then the 10th lord, then the planets aspecting the 10th
\* house (lines 1111-1161)
Rule34_PlanetaryCareerIndicators ==
    Run("planetary_indicators",
            LET in_10th  == SelectSeq(planets_in_10, LAMBDA n : n \in Range(SEVEN_PLANETS))
                with_lord == IF tenth_lord \in Range(SEVEN_PLANETS) /\ tenth_lord \notin Range(in_10th)
                             THEN in_10th \o <<tenth_lord>> ELSE in_10th
                asp_10   == PairNames(get_planets_aspecting_10th_house(FlatKeys(d1)))
                career_type_planets ==
                    with_lord \o SelectSeq(asp_10,
                                           LAMBDA n : /\ n \in Range(SEVEN_PLANETS)
                                                      /\ n \notin Range(planets_in_10)
                                                      /\ n \notin Range(with_lord))
                score == Cap(Pts(30) * Len(career_type_planets))
            IN  IF career_type_planets = <<>> THEN Nothing
                ELSE Contribution(<<Tag("planetary_career_indicators", Joined(career_type_planets))>>,
                                  "planetary_career_indicators" :> score,
                                  <<Rule("planetary_career_indicators", score, TRUE)>>))

\* the D10 planets in house h when the D10 houses dict has the cusp House_h
D10HousePlanets(h) ==
    IF HasHouses(d10) /\ h \in DOMAIN d10_houses
    THEN InHouse(d10, D10_ORDER, d10_cusps, h) ELSE <<>>

\* 35) D10 2nd house (lines 1163-1188)
Rule35_D10SecondHouse ==
    Run("d10_2nd_house",
            LET d10_2nd_planets == D10HousePlanets(2)
                score == Cap(Pts(20) * Count(d10_2nd_planets, BENEFICS) + Pts(30))
            IN  IF d10_2nd_planets = <<>> THEN Nothing
                ELSE Contribution(<<Tag("D10_2nd_house", Joined(d10_2nd_planets))>>,
                                  "d10_2nd_house" :> score,
                                  <<Rule("d10_2nd_house", score, TRUE)>>))

\* 36) D10 4th house (lines 1190-1213)
Rule36_D10FourthHouse ==
    Run("d10_4th_house",
            LET d10_4th_planets == D10HousePlanets(4)
                score == Cap(Pts(25) * Count(d10_4th_planets, BENEFICS) + Pts(20))
            IN  IF d10_4th_planets = <<>> THEN Nothing
                ELSE Contribution(<<Tag("D10_4th_house", Joined(d10_4th_planets))>>,
                                  "d10_4th_house" :> score,
                                  <<Rule("d10_4th_house", score, TRUE)>>))

\* 37) D10 8th house: every planet counts (lines 1215-1238)
Rule37_D10EighthHouse ==
    Run("d10_8th_house",
            LET d10_8th_planets == D10HousePlanets(8)
                score == Cap(Pts(20) * Len(d10_8th_planets) + Pts(20))
            IN  IF d10_8th_planets = <<>> THEN Nothing
                ELSE Contribution(<<Tag("D10_8th_house", Joined(d10_8th_planets))>>,
                                  "d10_8th_house" :> score,
                                  <<Rule("d10_8th_house", score, TRUE)>>))

\* 38) D10 9th house (lines 1240-1263)
Rule38_D10NinthHouse ==
    Run("d10_9th_house",
            LET d10_9th_planets == D10HousePlanets(9)
                score == Cap(Pts(30) * Count(d10_9th_planets, BENEFICS) + Pts(40))
            IN  IF d10_9th_planets = <<>> THEN Nothing
                ELSE Contribution(<<Tag("D10_9th_house", Joined(d10_9th_planets))>>,
                                  "d10_9th_house" :> score,
                                  <<Rule("d10_9th_house", score, TRUE)>>))

\* 39) Dasha career timing (lines 1265-1297)
Rule39_DashaCareerTiming ==
    Run("dasha_timing",
            LET current_dasa   == dasha_current.current_dasa
                current_bhukti == dasha_current.current_bhukti
                timing_score ==
                    (IF current_dasa \in Range(planets_in_10) THEN Pts(50) ELSE 0)
                      + (IF current_bhukti \in Range(planets_in_10) THEN Pts(30) ELSE 0)
                      + (IF current_dasa = tenth_lord THEN Pts(40) ELSE 0)
            IN  IF dasha_current = NoneValue THEN Nothing
                ELSE IF timing_score = 0 THEN Nothing
                ELSE Contribution(<<Tag("dasha_career_timing", <<current_dasa, current_bhukti>>)>>,
                                  "dasha_career_timing" :> Cap(timing_score),
                                  <<Rule("dasha_career_timing", Cap(timing_score), TRUE)>>))

\* 40) D1 against D10: planets in own sign or exalted (lines 1299-1341)
StrongIn(chart, n) ==
    RasiOf(chart, n) \in OwnSignsOf(n) \/ RasiOf(chart, n) = ExaltationOf(n)

Rule40_StrengthComparison ==
    Run("strength_comparison",
            LET both == SelectSeq(SEVEN_PLANETS, LAMBDA n : n \in DOMAIN d1 /\ n \in DOMAIN d10)
                strong_in_both     == SelectSeq(both, LAMBDA n : StrongIn(d1, n) /\ StrongIn(d10, n))
                strong_in_d10_only == SelectSeq(both, LAMBDA n : StrongIn(d10, n) /\ ~StrongIn(d1, n))
                score == Cap(Pts(30) * Len(strong_in_both) + Pts(20) * Len(strong_in_d10_only))
            IN  IF strong_in_both = <<>> /\ strong_in_d10_only = <<>> THEN Nothing
                ELSE Contribution(<<Tag("D1_D10_strength_comparison", <<>>)>>,
                                  "d1_d10_strength_comparison" :> score,
                                  <<Rule("d1_d10_strength_comparison", score, TRUE)>>))

\* 41) the 10th house counted from the Moon's house (lines 1343-1380)
Rule41_Moon10thCareer ==
    Run("moon_10th",
            LET moon_house_idx      == _which_house_d1(d1["Moon"].longitude, cusps) - 1
                tenth_from_moon_idx == (moon_house_idx + 9) % 12
                tenth_from_moon_rasi ==
                    RASIS[((cusps[tenth_from_moon_idx + 1] \div RasiUnits) % 12) + 1]
                planets_in_10th_from_moon ==
                    InHouse(d1, ChartOrder(d1), cusps, tenth_from_moon_idx + 1)
                score == Cap(Pts(20) * Len(planets_in_10th_from_moon) + Pts(30))
            IN  IF "Moon" \in DOMAIN d1 /\ "longitude" \in DOMAIN d1["Moon"]
                   /\ (planets_in_10th_from_moon # <<>> \/ LordOf(tenth_from_moon_rasi) # "")
                THEN Contribution(<<Tag("moon_10th_career", <<tenth_from_moon_rasi>>)>>,
                                  "moon_10th_career" :> score,
                                  <<Rule("moon_10th_career", score, TRUE)>>)
                ELSE Nothing)

\* 42) benefics against malefics in D10 (lines 1382-1421): the ratio
\* benefic_count / total against 0.6 and 0.4
Rule42_BeneficMaleficRatio ==
    Run("benefic_malefic_ratio",
            LET placed == SelectSeq(Items(d10, D10_ORDER), LAMBDA n : "longitude" \in DOMAIN d10[n])
                benefic_count == Count(placed, BENEFICS)
                malefic_count == Count(placed, MALEFICS)
                total == benefic_count + malefic_count
                score == IF 10 * benefic_count >= 6 * total THEN Pts(80)
                         ELSE IF 10 * benefic_count >= 4 * total THEN Pts(50)
                         ELSE Pts(30)
            IN  IF total = 0 THEN Nothing
                ELSE Contribution(<<Tag("D10_benefic_malefic_ratio",
                                        Joined(<<benefic_count, malefic_count>>))>>,
                                  "d10_benefic_malefic_ratio" :> score,
                                  <<Rule("d10_benefic_malefic_ratio", score, TRUE)>>))

\* 43) planets exalted in both charts; the score may exceed 1 (lines 1425-1457)
Rule43_ExaltedInBoth ==
    Run("exalted_in_both",
            LET exalted_in_both ==
                    SelectSeq(SEVEN_PLANETS,
                              LAMBDA n : /\ n \in DOMAIN d1 /\ n \in DOMAIN d10
                                         /\ RasiOf(d1, n) = ExaltationOf(n)
                                         /\ RasiOf(d10, n) = ExaltationOf(n))
                score == Min(Pts(150), Pts(50) * Len(exalted_in_both))
            IN  IF exalted_in_both = <<>> THEN Nothing
                ELSE Contribution(<<Tag("exalted_in_both_D1_D10", Joined(exalted_in_both))>>,
                                  "exalted_in_both_d1_d10" :> score,
                                  <<Rule("exalted_in_both_d1_d10", score, TRUE)>>))

\* the D10 planets other than the aspecting one that stand in its aspected
\* houses
AspectedPlanets(planet, houses) ==
    SelectSeq(Items(d10, D10_ORDER),
              LAMBDA n : /\ "longitude" \in DOMAIN d10[n]
                         /\ n # planet
                         /\ D10HouseOf(n) \in Range(houses))

\* 44) Jupiter's aspects in D10 (lines 1459-1507)
Rule44_JupiterAspectsD10 ==
    Run("jupiter_aspects",
            LET jupiter_house == D10HouseOf("Jupiter")
                jupiter_aspects_houses == <<((jupiter_house + 4) % 12) + 1,
                                            ((jupiter_house + 6) % 12) + 1,
                                            ((jupiter_house + 8) % 12) + 1>>
                benefic_aspects  == Count(AspectedPlanets("Jupiter", jupiter_aspects_houses), BENEFICS)
                important_houses == Count(jupiter_aspects_houses, {1, 4, 7, 10})
                score == Cap(Pts(40) + Pts(10) * benefic_aspects + Pts(15) * important_houses)
            IN  IF "Jupiter" \in DOMAIN d10 /\ "longitude" \in DOMAIN d10["Jupiter"]
                THEN Contribution(<<Tag("Jupiter_aspects_D10_houses", Joined(jupiter_aspects_houses))>>,
                                  "jupiter_aspects_d10" :> score,
                                  <<Rule("jupiter_aspects_d10", score, TRUE)>>)
                ELSE Nothing)

\* 45) Saturn's aspects in D10 (lines 1509-1554)
Rule45_SaturnAspectsD10 ==
    Run("saturn_aspects",
            LET saturn_house == D10HouseOf("Saturn")
                saturn_aspects_houses == <<((saturn_house + 2) % 12) + 1,
                                           ((saturn_house + 6) % 12) + 1,
                                           ((saturn_house + 9) % 12) + 1>>
                upachaya_aspects == Count(saturn_aspects_houses, {3, 6, 10, 11})
                score == Cap(Pts(40) + Pts(15) * upachaya_aspects)
            IN  IF "Saturn" \in DOMAIN d10 /\ "longitude" \in DOMAIN d10["Saturn"]
                THEN Contribution(<<Tag("Saturn_aspects_D10_houses", Joined(saturn_aspects_houses))>>,
                                  "saturn_aspects_d10" :> score,
                                  <<Rule("saturn_aspects_d10", score, TRUE)>>)
                ELSE Nothing)

\* 46) retrograde planets in D10 (lines 1556-1589)
Rule46_RetrogradePlanetsD10 ==
    Run("retrograde_d10",
            LET retrograde_in_d10 ==
                    SelectSeq(<<"Mercury", "Venus", "Mars", "Jupiter", "Saturn">>,
                              LAMBDA n : /\ n \in DOMAIN d10
                                         /\ "retrograde" \in DOMAIN d10[n]
                                         /\ d10[n].retrograde)
                score == Cap(Pts(30) * Len(retrograde_in_d10) + Pts(20))
            IN  IF retrograde_in_d10 = <<>> THEN Nothing
                ELSE Contribution(<<Tag("retrograde_in_D10", Joined(retrograde_in_d10))>>,
                                  "retrograde_planets_d10" :> score,
                                  <<Rule("retrograde_planets_d10", score, TRUE)>>))


(***************************************************************************)
(* career_rules.py: aggregation, rules checklist and return                *)
(***************************************************************************)
\* _extract_chart_summary (lines 381-417): the 10th lord's rasi is that of
\* the first entry that is the lord or sits in a rasi it rules; the planets
\* "in the 10th" are those whose rasi is the rasi of the 10th cusp
_extract_chart_summary(chart) ==
    LET tenth_house_rasi == RASIS[((_get_d1_cusps(chart)[10] \div RasiUnits) % 12) + 1]
        lord  == LordOf(tenth_house_rasi)
        found == SelectSeq(Items(chart, ChartOrder(chart)),
                           LAMBDA n : n = lord \/ LordOf(RasiOf(chart, n)) = lord)
    IN  [tenth_house_rasi   |-> tenth_house_rasi,
         tenth_lord         |-> lord,
         tenth_lord_in_rasi |-> IF found = <<>> THEN "Unknown" ELSE RasiOf(chart, Head(found)),
         planets_in_10th    |-> SelectSeq(Items(chart, ChartOrder(chart)),
                                          LAMBDA n : RasiOf(chart, n) = tenth_house_rasi),
         ascendant_rasi     |-> RasiOf(chart, "Ascendant")]

\* sum(scores.values())
RECURSIVE SumOver(_, _)
SumOver(named, keys) ==
    IF keys = {} THEN 0
    ELSE LET key == CHOOSE k \in keys : TRUE
         IN  named[key] + SumOver(named, keys \ {key})

\* variant that takes 0.5 as the lower threshold
CareerStrength_half(named) ==
    LET sum   == SumOver(named, DOMAIN named)
        count == Max(Cardinality(DOMAIN named), 1)
    IN  IF DOMAIN named = {} THEN "moderate"
        ELSE IF 10 * sum >= 7 * count * ScoreUnits THEN "strong"
        ELSE IF 10 * sum >= 5 * count * ScoreUnits THEN "moderate"
        ELSE "weak"

\* total_score = sum / max(len(scores), 1) against 0.7 and 0.4; "moderate"
\* when there is no score (lines 1591-1600)
\* The source divides in binary floating point; the decimals are kept exact
\* here. The two can differ only where the exact mean equals a threshold,
\* which no chart of the family produces.
CareerStrength(named) ==
    LET sum   == SumOver(named, DOMAIN named)
        count == Max(Cardinality(DOMAIN named), 1)
    IN  IF DOMAIN named = {} THEN "moderate"
        ELSE IF 10 * sum >= 7 * count * ScoreUnits THEN "strong"
        ELSE IF 10 * sum >= 4 * count * ScoreUnits THEN "moderate"
        ELSE "weak"

\* key in rid or rid.startswith(key), on the pieces of the two ids
IdMatches(key, rid) ==
    Contains(Pieces[rid], Pieces[key]) \/ StartsWith(Pieces[rid], Pieces[key])

\* variant that stops after the first applied rule
matched_rule_ids_first_only(rules) ==
    IF rules = <<>> THEN {} ELSE {rules[1].rule_id}

\* matched_rule_ids (lines 1604-1614): the ids of the applied rules and every
\* registry id found in one of them
matched_rule_ids(rules) ==
    {rules[k].rule_id : k \in DOMAIN rules}
      \cup {key \in Range(RULE_META) : \E k \in DOMAIN rules : IdMatches(key, rules[k].rule_id)}

\* applied_rules_map.get(rule_id, {}): the last applied rule with this id,
\* else the first applied rule whose id holds it; <<>> stands for {}
applied_rules_map(rules, rule_id) ==
    LET same == {k \in DOMAIN rules : rules[k].rule_id = rule_id}
        held == {k \in DOMAIN rules : IdMatches(rule_id, rules[k].rule_id)}
    IN  IF same # {} THEN <<rules[CHOOSE k \in same : \A j \in same : j <= k]>>
        ELSE IF held # {} THEN <<rules[CHOOSE k \in held : \A j \in held : k <= j]>>
        ELSE <<>>

\* matched = rule_id in matched_rule_ids or any(rule_id in rid for rid in ...)
IsMatched(matched_ids, rule_id) ==
    \/ rule_id \in matched_ids
    \/ \E rid \in matched_ids : Contains(Pieces[rid], Pieces[rule_id])

\* the rule ids whose current value and reason are written by a dedicated
\* branch (lines 1628-1695)
DEDICATED_RULES ==
    {"D1_10th_lord_in_10th", "D1_10th_lord_in_own_sign", "D1_planets_in_10th",
     "current_dasa_lord_is_10th_lord", "current_bhukti_lord_is_10th_lord",
     "dasha_10th_link", "bhukti_10th_link"}

\* current_value and reason of an entry, as the template that is filled in
EntryText(rule_id, matched, rule_info, summary, dasha) ==
    IF rule_id = "D1_10th_lord_in_10th"
    THEN IF matched
         THEN [current_value |-> "10th lord: {lord} in {10th rasi}",
               reason |-> "{lord} (10th lord) is placed in the 10th house"]
         ELSE [current_value |-> "10th lord: {lord} in {rasi}",
               reason |-> "{lord} (10th lord) is in {rasi}, not in the 10th house"]
    ELSE IF rule_id = "D1_10th_lord_in_own_sign"
    THEN IF matched
         THEN [current_value |-> "{lord} in own sign ({rasi})",
               reason |-> "The 10th lord {lord} is in its own sign {rasi}"]
         ELSE [current_value |-> "{lord} in {rasi}",
               reason |-> "The 10th lord {lord} is not in its own sign."]
    ELSE IF rule_id = "D1_planets_in_10th"
    THEN IF matched /\ summary.planets_in_10th # <<>>
         THEN [current_value |-> "{n} planets: {planets}", reason |-> "explanation"]
         ELSE [current_value |-> "No planets in 10th",
               reason |-> "No planets occupy the 10th house in D1."]
    ELSE IF rule_id = "current_dasa_lord_is_10th_lord"
    THEN IF dasha = NoneValue
         THEN [current_value |-> "Dasha not calculated",
               reason |-> "Current Dasha period could not be determined."]
         ELSE IF matched
         THEN [current_value |-> "Dasha: {dasa} (10th lord)",
               reason |-> "Currently running {dasa} Mahadasha, which rules the 10th house"]
         ELSE [current_value |-> "Dasha: {dasa} (10th lord: {lord})",
               reason |-> "The 10th lord is {lord}, not {dasa}."]
    ELSE IF rule_id = "current_bhukti_lord_is_10th_lord"
    THEN IF dasha = NoneValue
         THEN [current_value |-> "Bhukti not calculated",
               reason |-> "Current Bhukti period could not be determined."]
         ELSE IF matched
         THEN [current_value |-> "Bhukti: {bhukti} (10th lord)",
               reason |-> "Currently in {bhukti} Antardasha within {dasa} Mahadasha"]
         ELSE [current_value |-> "Bhukti: {bhukti} (10th lord: {lord})",
               reason |-> "The 10th lord is {lord}, not {bhukti}."]
    ELSE IF rule_id \in {"dasha_10th_link", "bhukti_10th_link"}
    THEN IF dasha = NoneValue
         THEN [current_value |-> "Not calculated", reason |-> "Dasha periods not calculated."]
         ELSE IF matched
         THEN [current_value |-> "{dasa}/{bhukti}", reason |-> "explanation"]
         ELSE [current_value |-> "{dasa}/{bhukti}",
               reason |-> "Current Dasha/Bhukti periods not connected to 10th house or its lord."]
    ELSE IF matched
    THEN [current_value |-> "Score: {score} | {score text} | Present",
          reason |-> IF rule_info = <<>> THEN "explanation" ELSE rule_info[1].explanation]
    ELSE [current_value |-> "Not present",
          reason |-> "explanation (Not found in this chart)"]

\* one entry of rules_checklist (lines 1617-1722); the score of a matched
\* entry is that of its rule record ("None" when the map has none)
ChecklistEntry(rule_id, matched, rule_info, summary, dasha) ==
    [rule_id |-> rule_id,
     matched |-> matched,
     current_value |-> EntryText(rule_id, matched, rule_info, summary, dasha).current_value,
     reason |-> EntryText(rule_id, matched, rule_info, summary, dasha).reason,
     score |-> IF ~matched THEN 0
               ELSE IF rule_info = <<>> THEN "None" ELSE rule_info[1].score]

\* variant that lists the matched rules only
rules_checklist_matched_only(rules, summary, dasha) ==
    LET matched_ids == matched_rule_ids(rules)
        listed == SelectSeq(RULE_META, LAMBDA id : IsMatched(matched_ids, id))
    IN  [k \in 1..Len(listed) |->
            ChecklistEntry(listed[k], TRUE, applied_rules_map(rules, listed[k]),
                           summary, dasha)]

\* one entry per id of RULE_META, in the order of the registry
rules_checklist(rules, summary, dasha) ==
    LET matched_ids == matched_rule_ids(rules)
    IN  [k \in 1..Len(RULE_META) |->
            ChecklistEntry(RULE_META[k], IsMatched(matched_ids, RULE_META[k]),
                           applied_rules_map(rules, RULE_META[k]), summary, dasha)]

\* the aggregation, the checklist and the return statement (lines 1591-1736)
AggregateAndReturn ==
    /\ pc = "aggregate"
    /\ LET checklist == rules_checklist(applied_rules, _extract_chart_summary(d1),
                                        dasha_current)
       IN  career_result' =
               [kind |-> "verdict",
                career_strength |-> CareerStrength(scores),
                rules_checklist |-> checklist,
                rules_score |-> <<Len(SelectSeq(checklist, LAMBDA e : e.matched)),
                                  Len(checklist)>>,
                chart_summary |-> _extract_chart_summary(d1)]
    /\ pc' = "returned"
    /\ UNCHANGED <<d10, dasha_current, bav_sav_full, factors, scores, applied_rules>>
    /\ OutsideCareer

(***************************************************************************)
(* career_rules.py: the inputs and the specification                       *)
(***************************************************************************)
\* offsets of the twelve cusps from the Ascendant in degrees: equal houses
\* and an unequal (Placidus-like) division
CUSP_STYLES ==
    <<<<0, 30, 60, 90, 120, 150, 180, 210, 240, 270, 300, 330>>,
      <<0, 27, 56, 88, 122, 151, 180, 207, 236, 268, 302, 331>>>>

\* a longitude in rasi r (0-based) at the given offset, in longitude units
At(r, offset) == (r % 12) * RasiUnits + offset

\* the bodies of an input chart: Sun, Moon and Ascendant are placed in the
\* rasis given, the other bodies follow from them (Mercury and Venus stay
\* next to the Sun, Ketu opposes Rahu, the nodes are retrograde)
CareerBodies(asc, sun, moon) ==
    [Sun       |-> get_chart_info(At(sun, 5 * UnitsPerDegree), FALSE),
     Moon      |-> get_chart_info(At(moon, 12 * UnitsPerDegree + 1), FALSE),
     Mercury   |-> get_chart_info(At(sun + 1, 20 * UnitsPerDegree), sun % 2 = 1),
     Venus     |-> get_chart_info(At(sun + 11, 27 * UnitsPerDegree), FALSE),
     Mars      |-> get_chart_info(At(sun + 2 * moon + 1, 2 * UnitsPerDegree), FALSE),
     Jupiter   |-> get_chart_info(At(moon + 4 * asc + 3, 8 * UnitsPerDegree), asc % 3 = 0),
     Saturn    |-> get_chart_info(At(3 * asc + moon + 7, 23 * UnitsPerDegree + 2),
                                  moon % 2 = 1),
     Rahu      |-> get_chart_info(At(asc + sun + 5, 16 * UnitsPerDegree), TRUE),
     Ketu      |-> get_chart_info(At(asc + sun + 11, 16 * UnitsPerDegree), TRUE),
     Ascendant |-> get_chart_info(At(asc, 10 * UnitsPerDegree), FALSE)]

\* calculate_house_positions: the cusps House_1 .. House_12 (keyed 1 .. 12)
CareerHouses(asc, style) ==
    [i \in 1..12 |->
        LET lon == (At(asc, 10 * UnitsPerDegree)
                      + CUSP_STYLES[style][i] * UnitsPerDegree) % CircleUnits
        IN  [longitude |-> lon, rasi |-> RASIS[RasiIndexOf(lon) + 1]]]

\* a chart as calculate_enhanced_planetary_positions returns it
EphemerisChart(asc, sun, moon, style) ==
    CareerBodies(asc, sun, moon)
      @@ ("_enhanced" :> [houses |-> CareerHouses(asc, style)])
      @@ ("_metadata" :> [calculation_method |-> "Swiss Ephemeris"])

\* a chart as _get_d1_from_db builds it: the bodies whose longitude column
\* is not NULL, and the stored cusps
DatabaseChart(asc, sun, moon, style, absent) ==
    Without(CareerBodies(asc, sun, moon), absent)
      @@ ("_enhanced" :> [houses |-> CareerHouses(asc, style)])

\* calculate_ashtakavarga_full and the dict career_predict makes of it
\* (sav_chart and sav_total; the BAV tables it also passes are not read)
calculate_ashtakavarga_full(chart) ==
    LET positions == extract_planet_positions(chart)
        bav == [p \in Range(BAV_PLANETS) |-> calculate_binnashtakavarga(p, positions)]
    IN  IF RequiredPresent(positions)
        THEN [sav |-> calculate_sarvashtakavarga(bav)]
        ELSE NoneValue

BavSavFull(chart) ==
    LET ashtakavarga == calculate_ashtakavarga_full(chart)
    IN  IF ashtakavarga = NoneValue THEN NoneValue
        ELSE [sav_chart |-> ashtakavarga.sav.chart, sav_total |-> ashtakavarga.sav.total]

\* a D10 argument that lacks what calculate_d10_chart would have put in it
D10Defects == {"none", "missing_cusp", "no_longitude"}

Defective(chart, defect) ==
    IF defect = "missing_cusp"
    THEN [k \in DOMAIN chart |->
             IF k = "_enhanced"
             THEN [houses |-> [i \in (DOMAIN chart[k].houses) \ {4} |-> chart[k].houses[i]]]
             ELSE chart[k]]
    ELSE IF defect = "no_longitude"
    THEN [k \in DOMAIN chart |->
             IF k \in Range(SEVEN_PLANETS) THEN [rasi |-> chart[k].rasi] ELSE chart[k]]
    ELSE chart

\* rasis of the Ascendant, the Sun and the Moon in the input charts
CareerAscendants == 0..11
CareerSuns == {4, 9}
CareerMoons == {3, 7}
CareerStyles == {1, 2}

\* the Dasha states passed: none, or the running Dasha and Bhukti lords
DashaStates ==
    {NoneValue,
     [current_dasa |-> "Saturn", current_bhukti |-> "Venus"],
     [current_dasa |-> "Sun", current_bhukti |-> "Mars"]}

\* the D1 charts: every ephemeris chart of the family, and database charts
\* with one body or none left out (a NULL longitude column)
CareerCharts ==
    {EphemerisChart(a, s, m, st) :
        a \in CareerAscendants, s \in CareerSuns, m \in CareerMoons, st \in CareerStyles}
      \cup {DatabaseChart(a, 10, 10, 2, b) :
              a \in CareerAscendants,
              b \in {"none", "Ascendant"} \cup Range(SEVEN_PLANETS)}

InitCareer ==
    /\ RoutesIdle
    /\ d1 \in CareerCharts
    /\ \E defect \in D10Defects :
          /\ (defect # "none" =>
                 "_metadata" \in DOMAIN d1 /\ d1["Sun"].rasi = "Simha"
                    /\ d1["Moon"].rasi = "Kataka")
          /\ d10 = Defective(calculate_d10_chart(d1), defect)
    /\ dasha_current \in DashaStates
    /\ bav_sav_full \in {NoneValue, BavSavFull(d1)}
    /\ factors = <<>>
    /\ scores = EmptyDict
    /\ applied_rules = <<>>
    /\ career_result = NoResult
    /\ pc = "tenth_lord_d1"
    /\ DashaIdle
    /\ AshtakaIdle
    /\ AspectsIdle
    /\ HarmonicIdle

NextCareer ==
    \/ Rule01_TenthLordInD1
    \/ Rule02_PlanetsIn10th
    \/ Rule03_D10TenthHouse
    \/ Rule04_DashaTouching10th
    \/ Rule05_Sav10thHouse
    \/ Rule06_TenthLordIn2nd3rd
    \/ Rule07_D10Kendra
    \/ Rule08_D10SignNature
    \/ Rule09_Vargottama
    \/ Rule10_TenthLordTransposition
    \/ Rule11_AspectsTo10th
    \/ Rule12to19_HelperRules
    \/ Rule20_YogakarakaIn10th
    \/ Rule21_ParivartanaYoga10th
    \/ Rule22_Neechabhanga10th
    \/ Rule23_SunIn10th
    \/ Rule24_DharmaKarmaYoga
    \/ Rule25_ExaltedIn10th
    \/ Rule26_RahuKetuIn10th
    \/ Rule27_CombustIn10th
    \/ Rule28_D10LagnaStrength
    \/ Rule29_D10TenthLordPlacement
    \/ Rule30_BigThreeLords
    \/ Rule31_ArthaTrikona
    \/ Rule32_BusinessVsJob
    \/ Rule33_SaturnInD10
    \/ Rule34_PlanetaryCareerIndicators
    \/ Rule35_D10SecondHouse
    \/ Rule36_D10FourthHouse
    \/ Rule37_D10EighthHouse
    \/ Rule38_D10NinthHouse
    \/ Rule39_DashaCareerTiming
    \/ Rule40_StrengthComparison
    \/ Rule41_Moon10thCareer
    \/ Rule42_BeneficMaleficRatio
    \/ Rule43_ExaltedInBoth
    \/ Rule44_JupiterAspectsD10
    \/ Rule45_SaturnAspectsD10
    \/ Rule46_RetrogradePlanetsD10
    \/ AggregateAndReturn

SpecCareer == InitCareer /\ [][NextCareer]_vars

(***************************************************************************)
(* Properties of career_rules                                              *)
(***************************************************************************)
\* C3: career_rules never raises: whatever the D1 chart, the D10 chart, the
\* Dasha state and the Ashtakavarga grid, no exception leaves the function (a
\* fault in one evaluator skips that evaluator only and a verdict is
\* returned).
C3_NeverRaises == pc # "raised" /\ career_result.kind # "raised"

\* the mean of the recorded scores against a threshold given in tenths
MeanAtLeast(tenths) ==
    10 * SumOver(scores, DOMAIN scores) >= tenths * Cardinality(DOMAIN scores) * ScoreUnits

\* C4: the verdict strength is a function of the recorded scores only:
\* strong when their mean is at least 0.7, moderate when it is at least 0.4
\* and below 0.7, weak when it is below 0.4, and moderate when no score was
\* recorded.
C4_StrengthFromMean ==
    pc = "returned" =>
        /\ (DOMAIN scores = {} => career_result.career_strength = "moderate")
        /\ (DOMAIN scores # {} /\ MeanAtLeast(7) => career_result.career_strength = "strong")
        /\ (DOMAIN scores # {} /\ MeanAtLeast(4) /\ ~MeanAtLeast(7)
              => career_result.career_strength = "moderate")
        /\ (DOMAIN scores # {} /\ ~MeanAtLeast(4) => career_result.career_strength = "weak")

\* a verdict "weak" has been returned from recorded scores with a mean below 0.4
C4_Witness ==
    /\ pc = "returned"
    /\ DOMAIN scores # {}
    /\ ~MeanAtLeast(4)
    /\ career_result.career_strength = "weak"

\* the number of the rasi counted tenth from the Ascendant's rasi (1 .. 12)
TenthSignFromAscendant == ((RasiIndexOf(d1["Ascendant"].longitude) + 9) % 12) + 1

\* C6: the SAV figure that the career rule grades (at least 30 gives 1.0, at
\* least 26 gives 0.7, otherwise 0.4) is the Sarvashtakavarga total of the
\* sign counted tenth from the Ascendant's sign, for every Ascendant.
C6_GradesTenthFromAscendant ==
    "sav_10th" \in DOMAIN scores =>
        LET house_sav == bav_sav_full.sav_chart[TenthSignFromAscendant]
        IN  /\ scores["sav_10th"] = (IF house_sav >= 30 THEN Pts(100)
                                     ELSE IF house_sav >= 26 THEN Pts(70)
                                     ELSE Pts(40))
            /\ \A k \in DOMAIN factors :
                  factors[k].head = "SAV_10th_house_bindus"
                     => factors[k].values = <<ToString(house_sav)>>

\* C7: for every input, the rule checklist returned by career_rules holds
\* every rule id of the registry exactly once, so its length is the number of
\* rules of the registry however many rules matched.
C7_ChecklistListsEveryRuleOnce ==
    pc = "returned" =>
        /\ Len(career_result.rules_checklist) = Len(RULE_META)
        /\ Cardinality(Range(RULE_META)) = Len(RULE_META)
        /\ \A id \in Range(RULE_META) :
              Cardinality({k \in DOMAIN career_result.rules_checklist :
                              career_result.rules_checklist[k].rule_id = id}) = 1

\* a checklist has been returned in which some rules matched and some did not
C7_Witness ==
    /\ pc = "returned"
    /\ career_result.rules_score[1] > 0
    /\ career_result.rules_score[1] < Len(career_result.rules_checklist)

\* some factor tag starts with the rule id or contains it
HeldByFactorTag(rule_id) ==
    \E j \in DOMAIN factors :
        \/ StartsWith(TagPieces(factors[j]), Pieces[rule_id])
        \/ Contains(TagPieces(factors[j]), Pieces[rule_id])

\* the id of some applied rule starts with the rule id or contains it
HeldByAppliedRule(rule_id) ==
    \E j \in DOMAIN applied_rules : IdMatches(rule_id, applied_rules[j].rule_id)

GenericNotPresent(entry) ==
    /\ entry.current_value = "Not present"
    /\ entry.reason = "explanation (Not found in this chart)"

\* C8 as stated: a checklist entry is matched if and only if some factor
\* tag produced for the chart starts with or contains the entry's rule id;
\* every other entry is unmatched with score 0 and the generic not-present
\* explanation.
C8_MatchedByFactorTags ==
    pc = "returned" =>
        \A k \in DOMAIN career_result.rules_checklist :
            LET entry == career_result.rules_checklist[k]
            IN  /\ entry.matched <=> HeldByFactorTag(entry.rule_id)
                /\ ~entry.matched => entry.score = 0 /\ GenericNotPresent(entry)

\* C8 amended: a checklist entry is matched if and only if the rule id of
\* some applied rule starts with or contains the entry's rule id; every other
\* entry is unmatched with score 0, and with the generic not-present
\* explanation unless its rule id has a dedicated text.
C8_MatchedByAppliedRules ==
    pc = "returned" =>
        \A k \in DOMAIN career_result.rules_checklist :
            LET entry == career_result.rules_checklist[k]
            IN  /\ entry.matched <=> HeldByAppliedRule(entry.rule_id)
                /\ ~entry.matched => entry.score = 0
                /\ ~entry.matched /\ entry.rule_id \notin DEDICATED_RULES
                      => GenericNotPresent(entry)

\* a checklist has been returned with an entry matched by an applied rule
\* that no factor tag holds, and an unmatched entry with a dedicated text
C8_Witness ==
    /\ pc = "returned"
    /\ \E k \in DOMAIN career_result.rules_checklist :
          LET entry == career_result.rules_checklist[k]
          IN  entry.matched /\ HeldByAppliedRule(entry.rule_id)
                 /\ ~HeldByFactorTag(entry.rule_id)
    /\ \E k \in DOMAIN career_result.rules_checklist :
          LET entry == career_result.rules_checklist[k]
          IN  ~entry.matched /\ entry.rule_id \in DEDICATED_RULES
                 /\ ~GenericNotPresent(entry)
(***************************************************************************)
(* The derived charts: calculate_d9_chart and calculate_d10_chart          *)
(***************************************************************************)
\* calculate_d9_chart: the bodies that have a longitude, and one D9 cusp for
\* every cusp of the D1 chart that has a longitude, each transformed by
\* itself (houses keyed 1 .. 12)
calculate_d9_chart(d1_positions) ==
    LET names == {n \in Range(D10_ORDER) :
                     n \in DOMAIN d1_positions /\ "longitude" \in DOMAIN d1_positions[n]}
        body(n) == LET lon == d1_positions[n].longitude
                   IN  [longitude |-> d1_longitude_to_d9_longitude(lon),
                        rasi |-> RASIS[d1_longitude_to_d9_rasi_index(lon) + 1],
                        retrograde |-> IF "retrograde" \in DOMAIN d1_positions[n]
                                       THEN d1_positions[n].retrograde ELSE FALSE]
        houses == IF "_enhanced" \in DOMAIN d1_positions
                  THEN d1_positions["_enhanced"].houses ELSE EmptyDict
        keys == {i \in DOMAIN houses : "longitude" \in DOMAIN houses[i]}
        d9_houses == [i \in keys |->
                         [longitude |-> d1_longitude_to_d9_longitude(houses[i].longitude),
                          rasi |-> RASIS[d1_longitude_to_d9_rasi_index(houses[i].longitude) + 1]]]
    IN  [k \in names \cup (IF keys # {} THEN {"_enhanced"} ELSE {}) |->
            IF k = "_enhanced" THEN [houses |-> d9_houses] ELSE body(k)]

\* the cusps of a D1 chart whose Ascendant stands in the middle of rasi asc
DivisionalHouses(asc, style) ==
    [i \in 1..12 |->
        LET lon == (MidRasi(asc).longitude + CUSP_STYLES[style][i] * UnitsPerDegree)
                      % CircleUnits
        IN  [longitude |-> lon, rasi |-> RASIS[RasiIndexOf(lon) + 1]]]

\* the D1 charts: with equal or unequal cusps, with or without the Ascendant
DivisionalCharts ==
    {Without(ChartOf(a, s, 3), b) @@ ("_enhanced" :> [houses |-> DivisionalHouses(a, st)]) :
        a \in 0..11, s \in {4, 9}, st \in {1, 2}, b \in {"none", "Ascendant"}}

InitDivisional ==
    /\ RoutesIdle
    /\ pc = "divisional"
    /\ d1 \in DivisionalCharts
    /\ longitude = 0
    /\ harmonic_result = NoResult
    /\ AshtakaIdle
    /\ AspectsIdle
    /\ DashaIdle
    /\ CareerIdle

CalculateD9Chart ==
    /\ pc = "divisional"
    /\ harmonic_result' = [kind |-> "d9_chart", chart |-> calculate_d9_chart(d1)]
    /\ pc' = "divisional_done"
    /\ UNCHANGED longitude
    /\ OutsideHarmonic

CalculateD10Chart ==
    /\ pc = "divisional"
    /\ harmonic_result' = [kind |-> "d10_chart", chart |-> calculate_d10_chart(d1)]
    /\ pc' = "divisional_done"
    /\ UNCHANGED longitude
    /\ OutsideHarmonic

NextDivisional == CalculateD9Chart \/ CalculateD10Chart

SpecDivisional == InitDivisional /\ [][NextDivisional]_vars

\* the chart has the twelve cusps, 30 degrees apart from its Ascendant on
EqualHousesFromAscendant(chart) ==
    /\ "Ascendant" \in DOMAIN chart
    /\ DOMAIN chart["_enhanced"].houses = 1..12
    /\ \A i \in 1..12 :
          chart["_enhanced"].houses[i].longitude
             = (chart["Ascendant"].longitude + (i - 1) * RasiUnits) % CircleUnits

\* C13: in every derived chart, the 9-fold chart as well as the 10-fold
\* chart, the 12 house cusps are equal 30-degree houses measured from the
\* derived Ascendant, whatever house system the base chart's cusps came from.
C13_EqualDerivedHouses ==
    (harmonic_result.kind \in {"d9_chart", "d10_chart"}
        /\ "_enhanced" \in DOMAIN harmonic_result.chart)
       => EqualHousesFromAscendant(harmonic_result.chart)

\* the rasi of the planet ruling the 10th-house sign ("" when the chart has
\* no such entry)
TenthLordRasi ==
    IF tenth_lord \in DOMAIN d1 /\ "rasi" \in DOMAIN d1[tenth_lord]
    THEN d1[tenth_lord].rasi ELSE ""

Recorded(rule_id) == \E k \in 1..Len(applied_rules) : applied_rules[k].rule_id = rule_id

\* C24: the D1 10th-lord dignity rules are decided from the position of the
\* 10th lord itself: D1_10th_lord_in_10th (in_own_sign, exalted) is recorded
\* only if the planet ruling the 10th-house sign is itself placed in the
\* 10th-house sign (in one of its own signs, in its exaltation sign).
C24_DignityOfTheLordItself ==
    /\ Recorded("D1_10th_lord_in_10th") => TenthLordRasi = house_10_rasi
    /\ Recorded("D1_10th_lord_in_own_sign") => TenthLordRasi \in OwnSignsOf(tenth_lord)
    /\ Recorded("D1_10th_lord_exalted") => TenthLordRasi = ExaltationOf(tenth_lord)

\* the factor tag `head` lists exactly the houses of the set given
ReportsHouses(head, houses) ==
    \E k \in 1..Len(factors) :
        /\ factors[k].head = head
        /\ \E listed \in [1..3 -> 1..12] :
              /\ Range(listed) = houses
              /\ factors[k].values = Joined(listed)

\* C25: all aspect computations in the rule engine agree: the houses the D10
\* Jupiter rule reports as aspected are the 5th, 7th and 9th counted from
\* Jupiter's own house and those the D10 Saturn rule reports are the 3rd, 7th
\* and 10th from Saturn's house, i.e. the set get_planet_aspects returns.
C25_AspectsAgree ==
    /\ Recorded("jupiter_aspects_d10") =>
           ReportsHouses("Jupiter_aspects_D10_houses",
                         get_planet_aspects("Jupiter", D10HouseOf("Jupiter")))
    /\ Recorded("saturn_aspects_d10") =>
           ReportsHouses("Saturn_aspects_D10_houses",
                         get_planet_aspects("Saturn", D10HouseOf("Saturn")))

\* the planets of the D1 chart that aspect a house, by get_planet_aspects
\* from their whole-sign house (an Ascendant at 0 degrees is an Ascendant)
PlanetsAspecting(house) ==
    IF "Ascendant" \in DOMAIN d1 THEN AspectingFrom(1, house, d1) ELSE <<>>

\* the planets other than the 10th lord that aspect the 10th lord's house
PlanetsAspectingTenthLord ==
    IF tenth_lord \in DOMAIN d1 /\ "Ascendant" \in DOMAIN d1
    THEN SelectSeq(PlanetsAspecting(get_house_from_planet_position(
                                        d1[tenth_lord].longitude, d1["Ascendant"].longitude)),
                   LAMBDA pair : pair[1] # tenth_lord)
    ELSE <<>>

\* C26: whenever at least one planet of the D1 chart passed to career_rules
\* aspects the 10th house, the aspects_to_10th_house rule is recorded (and
\* aspects_to_10th_lord whenever some other planet aspects the 10th lord);
\* the rules are absent only when no planet casts such an aspect.
C26_AspectRulesRecorded ==
    pc = "returned" =>
        /\ Recorded("aspects_to_10th_house") <=> PlanetsAspecting(10) # <<>>
        /\ Recorded("aspects_to_10th_lord") <=> PlanetsAspectingTenthLord # <<>>

\* C27: every value recorded in the verdict's score map lies in the closed
\* interval [0, 1], so the mean compared with the 0.7 and 0.4 thresholds also
\* lies in [0, 1].
C27_ScoresInUnitInterval ==
    \A name \in DOMAIN scores : 0 <= scores[name] /\ scores[name] <= ScoreUnits

\* OWN_SIGNS of additional_career_rules.py
ADDITIONAL_OWN_SIGNS ==
    [Sun |-> {"Simha"}, Moon |-> {"Kataka"}, Mars |-> {"Mesha", "Vrischika"},
     Mercury |-> {"Mithuna", "Kanni"}, Jupiter |-> {"Dhanus", "Meena"},
     Venus |-> {"Rishaba", "Thula"}, Saturn |-> {"Makara", "Kumbha"}]

\* C29: the per-planet dignity tables are identical wherever they are
\* duplicated: for every planet the exaltation sign and the own signs used by
\* career_rules equal those used by additional_career_rules, and no planet's
\* exaltation sign equals its debilitation sign (stated for the planets of
\* the chart under evaluation).
C29_DignityTablesAgree ==
    \A planet \in (DOMAIN EXALTATION) \cap (DOMAIN d1) :
          /\ planet \in DOMAIN ADDITIONAL_EXALTATION
          /\ planet \in DOMAIN OWN_SIGNS \cap DOMAIN ADDITIONAL_OWN_SIGNS
          /\ EXALTATION[planet] = ADDITIONAL_EXALTATION[planet]
          /\ OWN_SIGNS[planet] = ADDITIONAL_OWN_SIGNS[planet]
          /\ EXALTATION[planet] # DEBILITATION[planet]
          /\ ADDITIONAL_EXALTATION[planet] # DEBILITATION[planet]

\* what one evaluator's step adds
AppendsRuleRecord == Len(applied_rules') > Len(applied_rules)
AppendsFactorTag == Len(factors') > Len(factors)
RecordsScore == scores' # scores

\* C20: every rule evaluator contributes all or nothing: when it appends a
\* RuleRecord to the applied rules it also appends a factor tag and records at
\* least one named score, and when it records a score or a factor tag it also
\* appends a RuleRecord.
C20_AllOrNothing ==
    [][ /\ AppendsRuleRecord => (AppendsFactorTag /\ RecordsScore)
        /\ (RecordsScore \/ AppendsFactorTag) => AppendsRuleRecord ]_vars

\* C23: consecutive Mahadasha records always follow the fixed 9-planet cycle:
\* each record's planet is the cyclic successor of the previous record's
\* planet, including when the table continues past the ninth record.
C23_CyclicSuccessor ==
    \A k \in 1..(Len(dasa_table) - 1) :
        KeyIndex(dasa_table[k + 1].planet) = (KeyIndex(dasa_table[k].planet) + 1) % 9

(***************************************************************************)
(* Determinism of the current period                                       *)
(***************************************************************************)
\* the lords another evaluation of the same birth data returns when the
\* clock read by get_current_dasa_bhukti (line 192) shows the day `days`
LordsAt(days) ==
    LET r == get_current_dasa_bhukti(dasa_table, bhukti_table, days)
    IN  <<r.current_dasa.planet,
          IF r.bhukti_pos = 0 THEN "" ELSE r.current_bhukti.bhukti>>

\* C21: the verdict is a deterministic function of its inputs: two
\* evaluations of the same birth data (same Moon longitude and birth epoch)
\* return the same current Mahadasha and Bhukti whenever they are executed.
C21_SameAtAnyTime ==
    lookup.kind = "result" =>
        \A days \in QueryDays : LordsAt(days) = LordsAt(lookup.query)

(***************************************************************************)
(* profession_predictor_v2.py: the ProfessionClassifier, as career_predict *)
(* calls it for a request with birth data                                  *)
(***************************************************************************)
OutsideProfession ==
    UNCHANGED <<dashaVars, d1, ashtakaVars, aspectVars, harmonicVars, careerVars, chartsVars>>

\* dict.get(key, default)
GetOr(dict, key, default) == IF key \in DOMAIN dict THEN dict[key] ELSE default

\* enhanced_swiss_ephemeris.NAKSHATRAS
NAKSHATRAS ==
    <<"Ashwini", "Bharani", "Krittika", "Rohini", "Mrigashira", "Ardra",
      "Punarvasu", "Pushya", "Ashlesha", "Magha", "Purva Phalguni", "Uttara Phalguni",
      "Hasta", "Chitra", "Swati", "Vishakha", "Anuradha", "Jyeshtha",
      "Mula", "Purva Ashadha", "Uttara Ashadha", "Shravana", "Dhanishta", "Shatabhisha",
      "Purva Bhadrapada", "Uttara Bhadrapada", "Revati">>

\* int(longitude / (360 / 27))
get_nakshatra_from_longitude(lon) == NAKSHATRAS[((lon * 27) \div CircleUnits) + 1]

\* the chart with the nakshatra calculate_enhanced_planetary_positions puts
\* in every body's entry
WithNakshatra(chart) ==
    [k \in DOMAIN chart |->
        IF k \in Range(D1_ORDER)
        THEN chart[k] @@ ("nakshatra" :> get_nakshatra_from_longitude(chart[k].longitude))
        ELSE chart[k]]

\* PROFESSION_CATEGORIES in insertion order (description and houses are not
\* read by the classifier)
PROFESSION_CATEGORIES ==
    <<[name |-> "Technology/IT/Software",
       primary_planets |-> {"Mercury", "Rahu", "Saturn", "Mars"},
       secondary_planets |-> {"Jupiter", "Venus"},
       signs |-> {"Gemini", "Virgo", "Aquarius", "Scorpio", "Mithuna", "Kanya", "Kumbha",
                  "Vrischika", "Vrishchika"},
       nakshatras |-> {"Ashlesha", "Jyeshtha", "Revati", "Shatabhisha", "Swati",
                       "Mrigashira", "Punarvasu", "Chitra"},
       combinations |->
           <<[planets |-> {"Mercury", "Jupiter"}, bonus |-> 30,
              name |-> "Tech Business Leadership Yoga"],
             [planets |-> {"Mercury", "Mars"}, bonus |-> 30, name |-> "Tech Engineering Yoga"],
             [planets |-> {"Mars", "Venus"}, bonus |-> 25, name |-> "Tech Design/UX Yoga"],
             [planets |-> {"Mercury", "Venus"}, bonus |-> 25,
              name |-> "Creative Tech/Design Yoga"],
             [planets |-> {"Mercury", "Rahu"}, bonus |-> 25, name |-> "Tech Innovation Yoga"],
             [planets |-> {"Mercury", "Saturn"}, bonus |-> 20,
              name |-> "Systematic Tech Yoga"]>>],
      [name |-> "Business/Corporate Leadership",
       primary_planets |-> {"Sun", "Mercury", "Jupiter"},
       secondary_planets |-> {"Venus", "Mars"},
       signs |-> {"Leo", "Sagittarius", "Capricorn", "Simha", "Dhanus", "Makara"},
       nakshatras |-> {"Pushya", "Uttara Phalguni", "Uttara Ashadha", "Ashlesha", "Rohini"},
       combinations |->
           <<[planets |-> {"Sun", "Mercury"}, bonus |-> 30,
              name |-> "Budha-Aditya Yoga (Leadership)"],
             [planets |-> {"Mercury", "Jupiter"}, bonus |-> 35,
              name |-> "Budha-Guru Yoga (Business Wisdom)"],
             [planets |-> {"Sun", "Jupiter"}, bonus |-> 25,
              name |-> "Guru-Aditya Yoga (Authority)"]>>],
      [name |-> "Finance/Banking/Investment",
       primary_planets |-> {"Venus", "Jupiter", "Mercury"},
       secondary_planets |-> {"Moon"},
       signs |-> {"Taurus", "Libra", "Sagittarius", "Rishaba", "Tula", "Dhanus"},
       nakshatras |-> {"Rohini", "Pushya", "Uttara Phalguni", "Purva Bhadrapada"},
       combinations |->
           <<[planets |-> {"Venus", "Jupiter"}, bonus |-> 30, name |-> "Lakshmi Yoga (Wealth)"],
             [planets |-> {"Mercury", "Jupiter"}, bonus |-> 25,
              name |-> "Financial Wisdom Yoga"]>>],
      [name |-> "Government/Administration/Politics",
       primary_planets |-> {"Sun", "Saturn", "Jupiter"},
       secondary_planets |-> {"Mars", "Rahu"},
       signs |-> {"Leo", "Capricorn", "Sagittarius", "Simha", "Makara", "Dhanus"},
       nakshatras |-> {"Krittika", "Magha", "Uttara Phalguni", "Uttara Ashadha",
                       "Uttara Bhadrapada"},
       combinations |->
           <<[planets |-> {"Sun", "Saturn"}, bonus |-> 25, name |-> "Administrative Yoga"],
             [planets |-> {"Sun", "Rahu"}, bonus |-> 30, name |-> "Political Power Yoga"]>>],
      [name |-> "Medicine/Healthcare",
       primary_planets |-> {"Moon", "Ketu", "Mars"},
       secondary_planets |-> {"Jupiter", "Venus"},
       signs |-> {"Cancer", "Scorpio", "Pisces", "Virgo", "Kataka", "Vrishchika", "Meena",
                  "Kanya"},
       nakshatras |-> {"Ashwini", "Rohini", "Ardra", "Pushya", "Hasta"},
       combinations |->
           <<[planets |-> {"Moon", "Mars"}, bonus |-> 25, name |-> "Surgeon Yoga"],
             [planets |-> {"Moon", "Ketu"}, bonus |-> 20, name |-> "Healer Yoga"]>>],
      [name |-> "Teaching/Education/Research",
       primary_planets |-> {"Jupiter", "Mercury"},
       secondary_planets |-> {"Moon"},
       signs |-> {"Sagittarius", "Pisces", "Gemini", "Dhanus", "Meena", "Mithuna"},
       nakshatras |-> {"Punarvasu", "Vishakha", "Purva Bhadrapada", "Revati"},
       combinations |->
           <<[planets |-> {"Jupiter", "Moon"}, bonus |-> 25,
              name |-> "Gajakesari Yoga (Teacher)"],
             [planets |-> {"Jupiter", "Mercury"}, bonus |-> 0 - 15,
              name |-> "Business over Teaching"]>>],
      [name |-> "Arts/Media/Entertainment",
       primary_planets |-> {"Venus", "Moon", "Mercury"},
       secondary_planets |-> {"Rahu"},
       signs |-> {"Taurus", "Libra", "Pisces", "Cancer", "Rishaba", "Tula", "Meena",
                  "Kataka"},
       nakshatras |-> {"Bharani", "Rohini", "Purva Phalguni", "Revati", "Ashwini"},
       combinations |->
           <<[planets |-> {"Venus", "Moon"}, bonus |-> 30, name |-> "Creative Arts Yoga"],
             [planets |-> {"Venus", "Rahu"}, bonus |-> 25, name |-> "Fame/Cinema Yoga"]>>],
      [name |-> "Law/Judiciary",
       primary_planets |-> {"Jupiter", "Saturn", "Sun"},
       secondary_planets |-> {"Mercury"},
       signs |-> {"Sagittarius", "Capricorn", "Libra", "Dhanus", "Makara", "Tula"},
       nakshatras |-> {"Uttara Ashadha", "Uttara Bhadrapada", "Pushya", "Swati"},
       combinations |->
           <<[planets |-> {"Jupiter", "Saturn"}, bonus |-> 30, name |-> "Justice Yoga"]>>],
      [name |-> "Sales/Marketing/Communication",
       primary_planets |-> {"Mercury", "Venus", "Moon"},
       secondary_planets |-> {"Jupiter"},
       signs |-> {"Gemini", "Virgo", "Libra", "Mithuna", "Kanya", "Tula"},
       nakshatras |-> {"Ashlesha", "Jyeshtha", "Mrigashira", "Ardra"},
       combinations |->
           <<[planets |-> {"Mercury", "Venus"}, bonus |-> 25,
              name |-> "Communication Excellence Yoga"]>>],
      [name |-> "Sports/Military/Defense",
       primary_planets |-> {"Mars", "Sun"},
       secondary_planets |-> {"Saturn", "Ketu"},
       signs |-> {"Aries", "Scorpio", "Leo", "Mesha", "Vrishchika", "Simha"},
       nakshatras |-> {"Mrigashira", "Ardra", "Magha", "Moola", "Dhanishta"},
       combinations |->
           <<[planets |-> {"Mars", "Sun"}, bonus |-> 35, name |-> "Warrior Yoga"]>>]>>

\* sign_map of normalize_sign_name
SIGN_MAP ==
    [Mesha |-> "Aries", Rishaba |-> "Taurus", Mithuna |-> "Gemini", Kataka |-> "Cancer",
     Simha |-> "Leo", Kanya |-> "Virgo", Tula |-> "Libra", Vrishchika |-> "Scorpio",
     Vrischika |-> "Scorpio", Dhanus |-> "Sagittarius", Makara |-> "Capricorn",
     Kumbha |-> "Aquarius", Meena |-> "Pisces"]

normalize_sign_name(sign) == GetOr(SIGN_MAP, sign, sign)

\* the planets the predictor walks, in its order
PROFESSION_PLANETS ==
    <<"Sun", "Moon", "Mars", "Mercury", "Jupiter", "Venus", "Saturn", "Rahu", "Ketu">>

\* lords table of career_predict (career.py lines 212-217)
ROUTE_LORDS ==
    [Mesha |-> "Mars", Rishaba |-> "Venus", Mithuna |-> "Mercury", Kataka |-> "Moon",
     Simha |-> "Sun", Kanya |-> "Mercury", Tula |-> "Venus", Vrishchika |-> "Mars",
     Dhanus |-> "Jupiter", Makara |-> "Saturn", Kumbha |-> "Saturn", Meena |-> "Jupiter"]

\* lords table of calculate_profession_probabilities_v2 (lines 230-235)
ENGLISH_LORDS ==
    [Aries |-> "Mars", Taurus |-> "Venus", Gemini |-> "Mercury", Cancer |-> "Moon",
     Leo |-> "Sun", Virgo |-> "Mercury", Libra |-> "Venus", Scorpio |-> "Mars",
     Sagittarius |-> "Jupiter", Capricorn |-> "Saturn", Aquarius |-> "Saturn",
     Pisces |-> "Jupiter"]

\* the chart_data dict career_predict builds from D1: the keys
\* '<planet>_rasi', '<planet>_nakshatra', '<planet>_retrograde',
\* 'house_<i>_rasi' are grouped by their suffix
build_chart_data(chart) ==
    LET present == {p \in Range(D1_ORDER) : p \in DOMAIN chart}
        houses == IF "_enhanced" \in DOMAIN chart /\ "houses" \in DOMAIN chart["_enhanced"]
                  THEN chart["_enhanced"].houses ELSE EmptyDict
        house_rasi == [i \in (DOMAIN houses) \cap (1..12) |-> GetOr(houses[i], "rasi", "")]
    IN  [rasi       |-> [p \in present |-> GetOr(chart[p], "rasi", "")],
         nakshatra  |-> [p \in present |-> GetOr(chart[p], "nakshatra", "")],
         retrograde |-> [p \in present |-> GetOr(chart[p], "retrograde", FALSE)],
         house_rasi |-> house_rasi,
         tenth_lord |-> GetOr(ROUTE_LORDS, GetOr(house_rasi, 10, ""), "")]

get_planets_in_house(data, house_num) ==
    LET house_rasi == GetOr(data.house_rasi, house_num, "")
    IN  IF house_rasi = "" THEN <<>>
        ELSE SelectSeq(PROFESSION_PLANETS,
                       LAMBDA planet : normalize_sign_name(GetOr(data.rasi, planet, ""))
                                          = normalize_sign_name(house_rasi))

\* the first house whose rasi is the planet's (0 for None)
get_planet_house(data, planet) ==
    LET planet_rasi == GetOr(data.rasi, planet, "")
        hits == {h \in 1..12 :
                    normalize_sign_name(GetOr(data.house_rasi, h, ""))
                       = normalize_sign_name(planet_rasi)}
    IN  IF planet_rasi = "" \/ hits = {} THEN 0
        ELSE CHOOSE h \in hits : \A j \in hits : h <= j

\* lines 219-246 of calculate_profession_probabilities_v2: the 10th house,
\* the 10th lord and the planets with it
resolve_tenth_lord(data) ==
    LET tenth_house_rasi == normalize_sign_name(GetOr(data.house_rasi, 10, ""))
        the_lord == IF data.tenth_lord # "" THEN data.tenth_lord
                      ELSE GetOr(ENGLISH_LORDS, tenth_house_rasi, "")
        tenth_lord_rasi == IF the_lord # ""
                           THEN normalize_sign_name(GetOr(data.rasi, the_lord, ""))
                           ELSE ""
    IN  [kind                    |-> "locals",
         planets_in_10th         |-> get_planets_in_house(data, 10),
         tenth_house_rasi        |-> tenth_house_rasi,
         tenth_house_nakshatra   |-> "",
         tenth_lord              |-> the_lord,
         tenth_lord_nakshatra    |-> IF the_lord # ""
                                     THEN GetOr(data.nakshatra, the_lord, "") ELSE "",
         tenth_lord_house        |-> IF the_lord # ""
                                     THEN get_planet_house(data, the_lord) ELSE 0,
         tenth_lord_rasi         |-> tenth_lord_rasi,
         planets_with_tenth_lord |->
             IF the_lord # "" /\ tenth_lord_rasi # ""
             THEN SelectSeq(PROFESSION_PLANETS,
                            LAMBDA planet :
                                /\ planet # the_lord
                                /\ normalize_sign_name(GetOr(data.rasi, planet, ""))
                                      = tenth_lord_rasi)
             ELSE <<>>]

\* detect_yogas: the combinations found in the 10th house, then those found
\* with the 10th lord, as (bonus, reason) pairs
detect_yogas(loc, category) ==
    LET combos == category.combinations
        in_tenth(c) == c.planets \subseteq Range(loc.planets_in_10th)
        with_lord == loc.tenth_lord # "" /\ loc.planets_with_tenth_lord # <<>>
        all_relevant_planets == {loc.tenth_lord} \cup Range(loc.planets_with_tenth_lord)
        first == SelectSeq(combos, in_tenth)
        second == IF with_lord
                  THEN SelectSeq(combos, LAMBDA c : /\ c.planets \subseteq all_relevant_planets
                                                    /\ ~in_tenth(c))
                  ELSE <<>>
    IN  [k \in 1..Len(first) |-> [bonus |-> first[k].bonus,
                                  reason |-> <<"yoga", first[k].name>>]]
          \o [k \in 1..Len(second) |-> [bonus |-> second[k].bonus,
                                        reason |-> <<"yoga (10th lord)", second[k].name>>]]

\* 30 for a primary planet, 15 for a secondary one (steps 2 and 7 with
\* their own weights), as (points, reason) pairs
PlanetPoints(planets, category, primary, secondary, label) ==
    LET counted == SelectSeq(planets, LAMBDA p : p \in category.primary_planets
                                                    \cup category.secondary_planets)
    IN  [k \in 1..Len(counted) |->
            [bonus  |-> IF counted[k] \in category.primary_planets
                        THEN primary ELSE secondary,
             reason |-> <<label, counted[k]>>]]

\* the score before the cap, and the reasons, of one category (lines 249-324)
CategoryPoints(loc, category) ==
    LET yogas == detect_yogas(loc, category)
        yoga_bonus == SumSeq([k \in 1..Len(yogas) |-> yogas[k].bonus])
        step1 == IF yoga_bonus > 0
                 THEN [k \in 1..Len(yogas) |-> [bonus |-> IF k = 1 THEN yoga_bonus ELSE 0,
                                                reason |-> yogas[k].reason]]
                 ELSE IF yoga_bonus < 0
                 THEN <<[bonus |-> yoga_bonus, reason |-> yogas[1].reason]>>
                 ELSE <<>>
        step2 == PlanetPoints(loc.planets_in_10th, category, 30, 15, "in 10th")
        step3 == IF loc.tenth_house_rasi \in category.signs
                 THEN <<[bonus |-> 20, reason |-> <<"10th in", loc.tenth_house_rasi>>]>>
                 ELSE <<>>
        relevant_nakshatras ==
            SelectSeq(<<loc.tenth_lord_nakshatra, loc.tenth_house_nakshatra>>,
                      LAMBDA n : n # "")
        found == SelectSeq(relevant_nakshatras, LAMBDA n : n \in category.nakshatras)
        step4 == IF found # <<>>
                 THEN <<[bonus |-> 15, reason |-> <<"Nakshatra", found[1]>>]>>
                 ELSE <<>>
        step5 == IF loc.tenth_lord = "" THEN <<>>
                 ELSE PlanetPoints(<<loc.tenth_lord>>, category, 25, 15, "as 10th lord")
        step6 == IF loc.tenth_lord_rasi \in category.signs
                 THEN <<[bonus |-> 20, reason |-> <<"10th lord in", loc.tenth_lord_rasi>>]>>
                 ELSE <<>>
        step7 == PlanetPoints(loc.planets_with_tenth_lord, category, 25, 15, "with 10th lord")
        step8 == IF loc.tenth_lord_house \in {1, 2, 4, 5, 7, 9, 10, 11}
                 THEN <<[bonus |-> 10, reason |-> <<"10th lord in house",
                                                    ToString(loc.tenth_lord_house)>>]>>
                 ELSE <<>>
    IN  step1 \o step2 \o step3 \o step4 \o step5 \o step6 \o step7 \o step8

\* a score left as computed
CapScore_uncapped(score) == score

\* min(score, 100.0)
CapScore(score) == Min(score, 100)

\* results.sort(key=lambda x: x[1], reverse=True): descending and stable
SortedByScore(results) ==
    LET place(i) == Cardinality({j \in 1..Len(results) :
                                    \/ results[j].score > results[i].score
                                    \/ results[j].score = results[i].score /\ j < i}) + 1
    IN  [p \in 1..Len(results) |->
            results[CHOOSE i \in 1..Len(results) : place(i) = p]]

calculate_profession_probabilities_v2(loc) ==
    SortedByScore(
        [c \in 1..Len(PROFESSION_CATEGORIES) |->
            LET points == CategoryPoints(loc, PROFESSION_CATEGORIES[c])
            IN  [profession |-> PROFESSION_CATEGORIES[c].name,
                 score      |-> CapScore(SumSeq([k \in 1..Len(points) |-> points[k].bonus])),
                 reasons    |-> [k \in 1..Min(4, Len(points)) |-> points[k].reason]]])

\* rasis of the Sun and the Moon in the charts given to the predictor
ProfessionSuns == 0..11
ProfessionMoons == {3, 7, 10}

ProfessionCharts ==
    {WithNakshatra(EphemerisChart(a, s, m, st)) :
        a \in CareerAscendants, s \in ProfessionSuns, m \in ProfessionMoons,
        st \in CareerStyles}

InitProfession ==
    /\ pc = "career_predict"
    /\ d1 \in ProfessionCharts
    /\ ProfessionIdle
    /\ ChartsIdle
    /\ DashaIdle
    /\ AshtakaIdle
    /\ AspectsIdle
    /\ HarmonicIdle
    /\ CareerIdle

\* career.py lines 193-221
BuildChartData ==
    /\ pc = "career_predict"
    /\ profession_chart_data' = build_chart_data(d1)
    /\ pc' = "calculate_profession_probabilities_v2"
    /\ UNCHANGED <<profession_locals, profession_results>>
    /\ OutsideProfession

ResolveTenthLord ==
    /\ pc = "calculate_profession_probabilities_v2"
    /\ profession_locals' = resolve_tenth_lord(profession_chart_data)
    /\ pc' = "score_professions"
    /\ UNCHANGED <<profession_chart_data, profession_results>>
    /\ OutsideProfession

ScoreProfessions ==
    /\ pc = "score_professions"
    /\ profession_results' = calculate_profession_probabilities_v2(profession_locals)
    /\ pc' = "profession_done"
    /\ UNCHANGED <<profession_chart_data, profession_locals>>
    /\ OutsideProfession

NextProfession == BuildChartData \/ ResolveTenthLord \/ ScoreProfessions

SpecProfession == InitProfession /\ [][NextProfession]_vars

\* C22: for every chart the ProfessionClassifier returns a score of at most
\* 100 for each profession category and returns the categories ordered by
\* non-increasing score.
C22_CappedAndRanked ==
    /\ \A k \in 1..Len(profession_results) : profession_results[k].score <= 100
    /\ \A k \in 1..(Len(profession_results) - 1) :
          profession_results[k].score >= profession_results[k + 1].score

\* a classified chart in which a category reached the cap and the ranking
\* moved a later category ahead of the first one
C22_Witness ==
    /\ pc = "profession_done"
    /\ Len(profession_results) = Len(PROFESSION_CATEGORIES)
    /\ profession_results[1].score = 100
    /\ profession_results[1].profession # PROFESSION_CATEGORIES[1].name
    /\ \E k \in 1..Len(profession_results) : profession_results[k].score < 100

\* C28: for each of the 12 rasi names the chart builder emits as the
\* 10th-house sign, the ProfessionClassifier resolves a non-empty 10th lord
\* equal to that sign's ruler in the rasi-lord table.
C28_TenthLordResolved ==
    profession_locals # NoResult =>
        /\ profession_locals.tenth_lord # ""
        /\ profession_locals.tenth_lord = RASI_LORDS[d1["_enhanced"].houses[10].rasi]

\* ---------------------------------------------------------------------
\* api/routes/charts.py and api/cache.py: the D1 and D10 chart routes
\* ---------------------------------------------------------------------

OutsideCharts ==
    UNCHANGED <<pc, dashaVars, d1, ashtakaVars, aspectVars, harmonicVars, careerVars,
                professionVars>>

\* the decimal digits, used by strptime
Digits == <<"0", "1", "2", "3", "4", "5", "6", "7", "8", "9">>

DigitValue(c) == (CHOOSE i \in DOMAIN Digits : Digits[i] = c) - 1

TwoDigits(s, i) == DigitValue(s[i]) * 10 + DigitValue(s[i + 1])

\* str.strip() on a string given as its sequence of characters
RECURSIVE lstrip(_)
lstrip(s) == IF s # <<>> /\ Head(s) = " " THEN lstrip(Tail(s)) ELSE s

RECURSIVE rstrip(_)
rstrip(s) == IF s # <<>> /\ s[Len(s)] = " " THEN rstrip(SubSeq(s, 1, Len(s) - 1)) ELSE s

strip(s) == rstrip(lstrip(s))

\* datetime.strptime(tob_str, "%H:%M" or "%H:%M:%S").time()
strptime_time(tob_str) ==
    IF Len(tob_str) = 5
    THEN [hour |-> TwoDigits(tob_str, 1), minute |-> TwoDigits(tob_str, 4), second |-> 0]
    ELSE [hour |-> TwoDigits(tob_str, 1), minute |-> TwoDigits(tob_str, 4),
          second |-> TwoDigits(tob_str, 7)]

\* datetime.strptime(req.dob, "%Y-%m-%d").date(): padded and unpadded
\* spellings parse to the same date
strptime_date(dob_str) ==
    CASE dob_str = "1990-01-01" -> [year |-> 1990, month |-> 1, day |-> 1]
      [] dob_str = "1990-1-1" -> [year |-> 1990, month |-> 1, day |-> 1]
      [] dob_str = "1990-01-02" -> [year |-> 1990, month |-> 1, day |-> 2]

\* date.isoformat()
isoformat(date) ==
    CASE date = [year |-> 1990, month |-> 1, day |-> 1] -> "1990-01-01"
      [] date = [year |-> 1990, month |-> 1, day |-> 2] -> "1990-01-02"

\* whole days from 1990-01-01, for the dates of January 1990
DaysFromEpoch(date) == date.day - 1

\* pytz: minutes east of UTC of the zones used
UtcOffsetMinutes(timezone_name) ==
    CASE timezone_name = "UTC" -> 0
      [] timezone_name = "Asia/Kolkata" -> 330

\* _parse_birth_data for a request that carries latitude and longitude;
\* a missing timezone_name ("") becomes "UTC"
parse_birth_data(r) ==
    LET tob_str == strip(r.tob)
    IN  [dob |-> strptime_date(r.dob),
         tot |-> strptime_time(tob_str),
         lat |-> r.latitude,
         lon |-> r.longitude,
         tz_name |-> IF r.timezone_name = "" THEN "UTC" ELSE r.timezone_name]

\* the chart of a birth moment.  Instants are in seconds from 1990-01-01
\* 00:00 UTC, the Julian day in minutes (julday is given hour + minute/60);
\* the ephemeris is represented by the arguments it is queried with
chart_of_birth(date_of_birth, time_of_birth, lat, lon, timezone_name) ==
    LET local_dt == DaysFromEpoch(date_of_birth) * 86400 + time_of_birth.hour * 3600
                    + time_of_birth.minute * 60 + time_of_birth.second
        utc_dt == local_dt - UtcOffsetMinutes(timezone_name) * 60
        jd == utc_dt \div 60
    IN  [positions |-> [julian_day |-> jd, topo |-> <<lon, lat, 0>>],
         _metadata |-> [timezone_name |-> timezone_name,
                        timezone_offset |-> UtcOffsetMinutes(timezone_name),
                        calculation_time |-> utc_dt,
                        local_time |-> local_dt,
                        julian_day |-> jd]]

\* the answer of /charts/d10 built from a D1 chart
d10_out(chart) ==
    [d1_metadata |-> chart._metadata, d10 |-> [dasamsa_of |-> chart.positions]]

cache_key_d1(chart_id, dob_iso, tob_str, lat, lon) ==
    IF chart_id # NoneValue
    THEN <<"d1", "chart", chart_id>>
    ELSE <<"d1", "birth", dob_iso, tob_str, lat, lon>>

cache_key_d10(chart_id, dob_iso, tob_str, lat, lon) ==
    IF chart_id # NoneValue
    THEN <<"d10", "chart", chart_id>>
    ELSE <<"d10", "birth", dob_iso, tob_str, lat, lon>>

\* a no-op without REDIS_URL
cache_get(key) ==
    IF ~REDIS_URL THEN NoneValue
    ELSE IF key \in DOMAIN redis_data THEN redis_data[key]
    ELSE NoneValue

\* the store after cache_set(key, value)
cache_set(key, value) ==
    IF ~REDIS_URL THEN redis_data
    ELSE [k \in (DOMAIN redis_data) \cup {key} |-> IF k = key THEN value ELSE redis_data[k]]

\* req.tob.strip()[:5] if len(req.tob.strip()) >= 5 else req.tob.strip()
KeyTime(r) == IF Len(strip(r.tob)) >= 5 THEN SubSeq(strip(r.tob), 1, 5) ELSE strip(r.tob)

\* the request bodies sent to the routes
BirthDates == {"1990-01-01", "1990-1-1"}

BirthTimes == {<<"0", "5", ":", "3", "0">>,
               <<"0", "5", ":", "3", "0", " ">>,
               <<"0", "5", ":", "3", "0", ":", "4", "5">>}

TimezoneNames == {"", "UTC", "Asia/Kolkata"}

BirthDataRequests ==
    [dob : BirthDates, tob : BirthTimes, latitude : {13},
     longitude : {80}, timezone_name : TimezoneNames]

InitCharts ==
    /\ pc = "charts"
    /\ REDIS_URL \in BOOLEAN
    /\ redis_data = EmptyDict
    /\ charts_req = NoResult
    /\ charts_response = NoResult
    /\ d1 = EmptyDict
    /\ ProfessionIdle
    /\ DashaIdle
    /\ AshtakaIdle
    /\ AspectsIdle
    /\ HarmonicIdle
    /\ CareerIdle

\* POST /charts/d1
charts_d1 ==
    \E r \in BirthDataRequests :
        LET parsed == parse_birth_data(r)
            cache_key == cache_key_d1(NoneValue, isoformat(parsed.dob), KeyTime(r),
                                      parsed.lat, parsed.lon)
            cached == cache_get(cache_key)
            result == chart_of_birth(parsed.dob, parsed.tot, parsed.lat, parsed.lon,
                                     parsed.tz_name)
        IN  /\ charts_req' = [route |-> "d1", body |-> r]
            /\ IF cached # NoneValue
               THEN /\ charts_response' = cached
                    /\ UNCHANGED redis_data
               ELSE /\ redis_data' = cache_set(cache_key, result)
                    /\ charts_response' = result
            /\ UNCHANGED REDIS_URL
            /\ OutsideCharts

\* POST /charts/d10
charts_d10 ==
    \E r \in BirthDataRequests :
        LET parsed == parse_birth_data(r)
            cache_key == cache_key_d10(NoneValue, isoformat(parsed.dob), KeyTime(r),
                                       parsed.lat, parsed.lon)
            cached == cache_get(cache_key)
            out == d10_out(chart_of_birth(parsed.dob, parsed.tot, parsed.lat, parsed.lon,
                                          parsed.tz_name))
        IN  /\ charts_req' = [route |-> "d10", body |-> r]
            /\ IF cached # NoneValue
               THEN /\ charts_response' = cached
                    /\ UNCHANGED redis_data
               ELSE /\ redis_data' = cache_set(cache_key, out)
                    /\ charts_response' = out
            /\ UNCHANGED REDIS_URL
            /\ OutsideCharts

\* a key set with setex leaves the store when its time to live has passed
Expire ==
    /\ \E key \in DOMAIN redis_data :
           redis_data' = [k \in (DOMAIN redis_data) \ {key} |-> redis_data[k]]
    /\ UNCHANGED <<REDIS_URL, charts_req, charts_response>>
    /\ OutsideCharts

NextCharts == charts_d1 \/ charts_d10 \/ Expire

SpecCharts == InitCharts /\ [][NextCharts]_vars

\* the chart computed from a request's own date, time, place and timezone
OwnChart(request) ==
    LET parsed == parse_birth_data(request.body)
        chart == chart_of_birth(parsed.dob, parsed.tot, parsed.lat, parsed.lon,
                                parsed.tz_name)
    IN  IF request.route = "d1" THEN chart ELSE d10_out(chart)

\* C30: after any sequence of D1 and D10 chart requests the response to a
\* request equals the chart computed from that request's own birth date, time,
\* latitude, longitude and timezone; a cache hit never returns a chart that
\* was computed for different inputs.
C30_ResponseIsOwnChart ==
    charts_req # NoResult => charts_response = OwnChart(charts_req)

====
